---------------------------- MODULE Spec2Model ----------------------------
(***************************************************************************)
(* semVersie: a model of the deduplicating promise cache used by the       *)
(* GitHub queries (github.ts, utils.ts), of the release-candidate tag scan *)
(* and of the aggregate impact resolution / version computation of a run   *)
(* (main.ts, semver.ts, conventional_commits.ts).                          *)
(*                                                                         *)
(* Strings of the program are sequences of one-character strings, so that  *)
(* parsing and formatting are computed character by character.             *)
(***************************************************************************)
EXTENDS Integers, Sequences, FiniteSets, TLC

(***************************************************************************)
(* Bounds of the model.                                                    *)
(***************************************************************************)
\* number of (one-shot) callers of the cached queries
NCallers == 3

(***************************************************************************)
(* PART 1 -- the cached queries getLatestTag, getLatestRelease and         *)
(* getPrCommits over the module-level GH_CACHE.                            *)
(*                                                                         *)
(* JavaScript runs handlers to completion; an action below is one such     *)
(* uninterrupted piece of code: the synchronous part of a call, or one     *)
(* promise reaction.  Callers may arrive between any two reactions.        *)
(***************************************************************************)
VARIABLES
  GH_CACHE,   \* cache key -> id of the registered computation, NoComp if no entry
  comps,      \* sequence of the computations created so far (the promise chains)
  callers     \* caller -> position of that call and what it got

cacheVars == <<GH_CACHE, comps, callers>>

Queries == {"latestTag", "latestRelease", "prCommits"}
Callers == 1..NCallers
NoComp == 0

\* What the API can answer to a request: data, or no data at all.
Responses == {"data", "none"}
Absent == "undefined"
EmptyList == "[]"

\* The cache key of a query: `latestTag:${owner}/${repo}` and so on.  owner, repo
\* and the pull number come from the one Actions context of the process, so
\* every call of one query uses the same key.
cacheKey(q) == q

\* LRUCache.get: the stored value, undefined when there is none.
LRUCacheGet(map, key) == map[key]

\* LRUCache.set: replaces any prior entry.
LRUCacheSet(map, key, value) == [map EXCEPT ![key] = value]

LRUCacheDeleteNoop(map, key) == map
\* LRUCache.delete: unconditional removal by key, whatever value is stored.
LRUCacheDelete(map, key) == [map EXCEPT ![key] = NoComp]

\* The value the settled API answer is mapped to by the .then() of the query.
\*   getLatestTag:     (res.data && res.data[0] && res.data[0].name) || undefined
\*   getLatestRelease: res && res.data ? res.data : undefined
\*   getPrCommits:     res.data.map(parseCommit)
thenValue(q, resp) ==
  IF resp = "none"
    THEN (IF q = "prCommits" THEN EmptyList ELSE Absent)
    ELSE resp

catchFallbackRethrow(q) == "error"
\* The value returned by the raw.catch() handler of the query.
catchFallback(q) == IF q = "prCommits" THEN EmptyList ELSE Absent

\* Outcome of a call as its caller sees it.
Return(v) == [kind |-> "returned", v |-> v]
Throw == [kind |-> "threw", v |-> "error"]

syncCatchPropagate(o) == o
\* getPrCommits: try { call = octokit.rest.pulls.listCommits(..) } catch { return [] }
syncCatch(o) == IF o.kind = "threw" THEN Return(EmptyList) ELSE o

\* A computation: the chain raw -> wrapped (= p) -> p.finally(..).
\*   st = "created"    registered; the API request is issued in the next reaction
\*        "inflight"   the API request is outstanding
\*        "rawSettled" raw is fulfilled (raw = value) or rejected (raw = "error")
\*        "settled"    p is fulfilled with p
\*        "done"       the p.finally() handler has run
NewComp(q, st) == [q |-> q, st |-> st, raw |-> "", p |-> ""]

IdleCaller == [pc |-> "idle", q |-> "", c |-> NoComp, at |-> "", res |-> ""]

CacheInit ==
  /\ GH_CACHE = [k \in {cacheKey(q) : q \in Queries} |-> NoComp]
  /\ comps = <<>>
  /\ callers = [i \in Callers |-> IdleCaller]

\* Callers are interchangeable: they call in the order of their numbers.
MayCall(i) ==
  /\ callers[i].pc = "idle"
  /\ \A j \in Callers : j < i => callers[j].pc # "idle"

\* The part of a cached query that runs when the cache holds an entry: the
\* caller gets the stored promise and waits for it.
JoinCached(i, q) ==
  LET c == LRUCacheGet(GH_CACHE, cacheKey(q)) IN
  /\ c # NoComp
  /\ callers' = [callers EXCEPT ![i] =
       [pc |-> "waiting", q |-> q, c |-> c, at |-> comps[c].st, res |-> ""]]
  /\ UNCHANGED <<GH_CACHE, comps>>

\* Registers a new computation for q in state st and makes caller i wait for it:
\*   p = wrapped; GH_CACHE.set(cacheKey, p); p.finally(() => GH_CACHE.delete(cacheKey))
Register(i, q, st) ==
  LET c == Len(comps) + 1 IN
  /\ comps' = Append(comps, NewComp(q, st))
  /\ GH_CACHE' = LRUCacheSet(GH_CACHE, cacheKey(q), c)
  /\ callers' = [callers EXCEPT ![i] =
       [pc |-> "waiting", q |-> q, c |-> c, at |-> "new", res |-> ""]]

\* getLatestTag / getLatestRelease, synchronous part.  On a miss the request is
\* not issued yet: Promise.resolve().then(() => octokit...) issues it in a
\* later reaction.
CachedQuery(i, q) ==
  /\ MayCall(i)
  /\ \/ JoinCached(i, q)
     \/ /\ LRUCacheGet(GH_CACHE, cacheKey(q)) = NoComp
        /\ Register(i, q, "created")

getLatestTag(i) == CachedQuery(i, "latestTag")

getLatestRelease(i) == CachedQuery(i, "latestRelease")

\* getPrCommits, synchronous part.  On a miss listCommits is called at once; if
\* it throws synchronously the call returns [] and registers nothing.
getPrCommits(i) ==
  /\ MayCall(i)
  /\ \/ JoinCached(i, "prCommits")
     \/ /\ LRUCacheGet(GH_CACHE, cacheKey("prCommits")) = NoComp
        /\ \/ Register(i, "prCommits", "inflight")
           \/ /\ callers' = [callers EXCEPT ![i] =
                   [pc |-> syncCatch(Throw).kind, q |-> "prCommits", c |-> NoComp,
                    at |-> "new", res |-> syncCatch(Throw).v]]
              /\ UNCHANGED <<GH_CACHE, comps>>

\* The reaction () => octokit.rest.repos.listTags(..) of getLatestTag and
\* getLatestRelease: the request goes out, or the call throws and raw rejects.
IssueRequest(c) ==
  /\ c \in 1..Len(comps)
  /\ comps[c].st = "created"
  /\ \/ comps' = [comps EXCEPT ![c].st = "inflight"]
     \/ comps' = [comps EXCEPT ![c].st = "rawSettled", ![c].raw = "error"]
  /\ UNCHANGED <<GH_CACHE, callers>>

\* The API answers (or fails) and the .then() mapping settles raw.
RequestSettles(c) ==
  /\ c \in 1..Len(comps)
  /\ comps[c].st = "inflight"
  /\ \/ \E resp \in Responses :
          comps' = [comps EXCEPT ![c].st = "rawSettled",
                                 ![c].raw = thenValue(comps[c].q, resp)]
     \/ comps' = [comps EXCEPT ![c].st = "rawSettled", ![c].raw = "error"]
  /\ UNCHANGED <<GH_CACHE, callers>>

\* wrapped = raw.catch((err) => { GH_CACHE.delete(cacheKey); return fallback })
\* settles: the handler runs if raw rejected, the value passes through if not.
WrappedSettles(c) ==
  /\ c \in 1..Len(comps)
  /\ comps[c].st = "rawSettled"
  /\ IF comps[c].raw = "error"
       THEN /\ GH_CACHE' = LRUCacheDelete(GH_CACHE, cacheKey(comps[c].q))
            /\ comps' = [comps EXCEPT ![c].st = "settled",
                                      ![c].p = catchFallback(comps[c].q)]
       ELSE /\ comps' = [comps EXCEPT ![c].st = "settled", ![c].p = comps[c].raw]
            /\ UNCHANGED GH_CACHE
  /\ UNCHANGED callers

\* p.finally(() => GH_CACHE.delete(cacheKey)): the first reaction of p.
FinallyHandler(c) ==
  /\ c \in 1..Len(comps)
  /\ comps[c].st = "settled"
  /\ GH_CACHE' = LRUCacheDelete(GH_CACHE, cacheKey(comps[c].q))
  /\ comps' = [comps EXCEPT ![c].st = "done"]
  /\ UNCHANGED callers

\* A waiting caller resumes with the value of p.  Its reaction was registered
\* after the p.finally() one, so it runs after it.
CallerResumes(i) ==
  /\ callers[i].pc = "waiting"
  /\ comps[callers[i].c].st = "done"
  /\ callers' = [callers EXCEPT ![i].pc = "returned", ![i].res = comps[callers[i].c].p]
  /\ UNCHANGED <<GH_CACHE, comps>>

(***************************************************************************)
(* PART 2 -- strings.  A string is a sequence of one-character strings.    *)
(***************************************************************************)
DigitChars == <<"0", "1", "2", "3", "4", "5", "6", "7", "8", "9">>
UpperChars == <<"A", "B", "C", "D", "E", "F", "G", "H", "I", "J", "K", "L", "M",
                "N", "O", "P", "Q", "R", "S", "T", "U", "V", "W", "X", "Y", "Z">>
LowerChars == <<"a", "b", "c", "d", "e", "f", "g", "h", "i", "j", "k", "l", "m",
                "n", "o", "p", "q", "r", "s", "t", "u", "v", "w", "x", "y", "z">>

Range(f) == {f[i] : i \in DOMAIN f}
IsDigit(ch) == ch \in Range(DigitChars)
IsLetter(ch) == ch \in Range(UpperChars) \cup Range(LowerChars)
\* [0-9a-zA-Z-]
IsIdentChar(ch) == IsDigit(ch) \/ IsLetter(ch) \/ ch = "-"
\* \w
IsWordChar(ch) == IsDigit(ch) \/ IsLetter(ch) \/ ch = "_"

IndexIn(seq, ch) == CHOOSE i \in DOMAIN seq : seq[i] = ch
DigitVal(ch) == IndexIn(DigitChars, ch) - 1

\* String.prototype.toLowerCase, one character.
LowerChar(ch) == IF ch \in Range(UpperChars) THEN LowerChars[IndexIn(UpperChars, ch)] ELSE ch
toLowerCase(s) == [i \in DOMAIN s |-> LowerChar(s[i])]

\* The UTF-16 code unit order of the characters an identifier can hold:
\* '-' < digits < upper-case letters < lower-case letters.
CharRank(ch) == IndexIn(<<"-">> \o DigitChars \o UpperChars \o LowerChars, ch)

\* JavaScript's a > b on strings of identifier characters.
RECURSIVE StrGreater(_, _)
StrGreater(a, b) ==
  IF a = <<>> THEN FALSE
  ELSE IF b = <<>> THEN TRUE
  ELSE IF a[1] # b[1] THEN CharRank(a[1]) > CharRank(b[1])
  ELSE StrGreater(Tail(a), Tail(b))

\* String.prototype.includes
includes(s, sub) ==
  \E i \in 1..(Len(s) - Len(sub) + 1) : SubSeq(s, i, i + Len(sub) - 1) = sub

\* Index of the first character of s that is in set chars, Len(s)+1 if none.
FirstIn(s, chars) ==
  IF \E i \in DOMAIN s : s[i] \in chars
    THEN CHOOSE i \in DOMAIN s : s[i] \in chars /\ \A j \in 1..(i - 1) : s[j] \notin chars
    ELSE Len(s) + 1

\* String.prototype.split on a one-character separator.
RECURSIVE split(_, _)
split(s, sep) ==
  LET i == FirstIn(s, {sep}) IN
  IF i > Len(s) THEN <<s>>
  ELSE <<SubSeq(s, 1, i - 1)>> \o split(SubSeq(s, i + 1, Len(s)), sep)

\* ^[0-9]+$
AllDigits(s) == s # <<>> /\ \A i \in DOMAIN s : IsDigit(s[i])

\* parseInt(s, 10) / Number(s) of a digit string.
RECURSIVE StrToNat(_)
StrToNat(s) ==
  IF s = <<>> THEN 0 ELSE 10 * StrToNat(SubSeq(s, 1, Len(s) - 1)) + DigitVal(s[Len(s)])

\* `${n}` of a non-negative integer.
RECURSIVE NatToStr(_)
NatToStr(n) ==
  IF n < 10 THEN <<DigitChars[n + 1]>> ELSE NatToStr(n \div 10) \o <<DigitChars[(n % 10) + 1]>>

(***************************************************************************)
(* PART 3 -- SemanticVersion (semver.ts).  An absent or empty optional     *)
(* string is <<>>: the code tests both with `if (prerelease)`.             *)
(***************************************************************************)
NOIMPACT == 0
PATCH == 1
MINOR == 2
MAJOR == 3
Impact == {NOIMPACT, PATCH, MINOR, MAJOR}

\* The result `undefined` of a function that returns a version or a
\* classification.
Undefined == [undefined |-> TRUE]

\* \d+ in place of 0|[1-9]\d*: leading zeros accepted.
IsNumeralLoose(s) == AllDigits(s)

\* 0|[1-9]\d*
IsNumeral(s) == AllDigits(s) /\ (s[1] = "0" => Len(s) = 1)

\* 0|[1-9]\d*|\d*[a-zA-Z-][0-9a-zA-Z-]*
IsPrereleaseIdent(s) ==
  /\ s # <<>>
  /\ \A i \in DOMAIN s : IsIdentChar(s[i])
  /\ (AllDigits(s) => IsNumeral(s))

\* prerelease_re without the leading-zero rule for numeric identifiers.
prerelease_re_loose(s) ==
  \A k \in DOMAIN split(s, ".") :
    split(s, ".")[k] # <<>> /\ \A i \in DOMAIN split(s, ".")[k] : IsIdentChar(split(s, ".")[k][i])

\* prerelease_re of the constructor
prerelease_re(s) == \A k \in DOMAIN split(s, ".") : IsPrereleaseIdent(split(s, ".")[k])

\* buildmetadata_re of the constructor: [0-9a-zA-Z-]+(\.[0-9a-zA-Z-]+)*
buildmetadata_re(s) ==
  \A k \in DOMAIN split(s, ".") :
    LET id == split(s, ".")[k] IN id # <<>> /\ \A i \in DOMAIN id : IsIdentChar(id[i])

\* new SemanticVersion(major, minor, patch, prerelease, buildmetadata); the
\* constructor throws on a prerelease or buildmetadata outside its grammar.
ConstructorThrows(prerelease, buildmetadata) ==
  \/ (prerelease # <<>> /\ ~prerelease_re(prerelease))
  \/ (buildmetadata # <<>> /\ ~buildmetadata_re(buildmetadata))

SemanticVersion(major, minor, patch, prerelease, buildmetadata) ==
  [major |-> major, minor |-> minor, patch |-> patch,
   prerelease |-> prerelease, buildmetadata |-> buildmetadata]

\* toString without line 46: the build metadata is not written.
toStringNoBuild(v) ==
  NatToStr(v.major) \o <<".">> \o NatToStr(v.minor) \o <<".">> \o NatToStr(v.patch)
    \o (IF v.prerelease # <<>> THEN <<"-">> \o v.prerelease ELSE <<>>)

\* SemanticVersion.toString
toString(v) ==
  NatToStr(v.major) \o <<".">> \o NatToStr(v.minor) \o <<".">> \o NatToStr(v.patch)
    \o (IF v.prerelease # <<>> THEN <<"-">> \o v.prerelease ELSE <<>>)
    \o (IF v.buildmetadata # <<>> THEN <<"+">> \o v.buildmetadata ELSE <<>>)

\* SemanticVersion.as_tag
as_tag(v) == <<"v">> \o toString(v)

\* bump falling back on the prerelease and buildmetadata of the version bumped.
bumpKeepingMetadata(v, impact, prerelease, buildmetadata) ==
  [major |-> IF impact = MAJOR THEN v.major + 1 ELSE v.major,
   minor |-> IF impact = MAJOR THEN 0 ELSE IF impact = MINOR THEN v.minor + 1 ELSE v.minor,
   patch |-> IF impact \in {MAJOR, MINOR} THEN 0 ELSE IF impact = PATCH THEN v.patch + 1 ELSE v.patch,
   prerelease |-> IF prerelease # <<>> THEN prerelease ELSE v.prerelease,
   buildmetadata |-> IF buildmetadata # <<>> THEN buildmetadata ELSE v.buildmetadata]

\* SemanticVersion.bump; the prerelease and buildmetadata of the result are the
\* arguments, not those of the version bumped.
bump(v, impact, prerelease, buildmetadata) ==
  CASE impact = MAJOR -> SemanticVersion(v.major + 1, 0, 0, prerelease, buildmetadata)
    [] impact = MINOR -> SemanticVersion(v.major, v.minor + 1, 0, prerelease, buildmetadata)
    [] impact = PATCH -> SemanticVersion(v.major, v.minor, v.patch + 1, prerelease, buildmetadata)
    [] OTHER -> SemanticVersion(v.major, v.minor, v.patch, prerelease, buildmetadata)

\* The loop of compare answering -1 whenever either list has run out.
RECURSIVE comparePrereleaseRunOut(_, _, _)
comparePrereleaseRunOut(aParts, bParts, i) ==
  IF i > Len(aParts) /\ i > Len(bParts) THEN 0
  ELSE IF i > Len(aParts) \/ i > Len(bParts) THEN -1
  ELSE LET ap == aParts[i]
           bp == bParts[i]
           an == AllDigits(ap)
           bn == AllDigits(bp)
       IN IF an /\ bn
            THEN (IF StrToNat(ap) # StrToNat(bp)
                    THEN (IF StrToNat(ap) > StrToNat(bp) THEN 1 ELSE -1)
                    ELSE comparePrereleaseRunOut(aParts, bParts, i + 1))
          ELSE IF an /\ ~bn THEN -1
          ELSE IF ~an /\ bn THEN 1
          ELSE IF ap # bp THEN (IF StrGreater(ap, bp) THEN 1 ELSE -1)
          ELSE comparePrereleaseRunOut(aParts, bParts, i + 1)

\* The loop of compare with every pair of identifiers compared as text.
RECURSIVE comparePrereleaseAsText(_, _, _)
comparePrereleaseAsText(aParts, bParts, i) ==
  IF i > Len(aParts) /\ i > Len(bParts) THEN 0
  ELSE IF i > Len(aParts) THEN -1
  ELSE IF i > Len(bParts) THEN 1
  ELSE IF aParts[i] # bParts[i] THEN (IF StrGreater(aParts[i], bParts[i]) THEN 1 ELSE -1)
  ELSE comparePrereleaseAsText(aParts, bParts, i + 1)

\* The loop of SemanticVersion.compare over the dot-separated identifiers,
\* from index i on.
RECURSIVE comparePrerelease(_, _, _)
comparePrerelease(aParts, bParts, i) ==
  IF i > Len(aParts) /\ i > Len(bParts) THEN 0
  ELSE IF i > Len(aParts) THEN -1
  ELSE IF i > Len(bParts) THEN 1
  ELSE LET ap == aParts[i]
           bp == bParts[i]
           an == AllDigits(ap)
           bn == AllDigits(bp)
       IN IF an /\ bn
            THEN (IF StrToNat(ap) # StrToNat(bp)
                    THEN (IF StrToNat(ap) > StrToNat(bp) THEN 1 ELSE -1)
                    ELSE comparePrerelease(aParts, bParts, i + 1))
          ELSE IF an /\ ~bn THEN -1
          ELSE IF ~an /\ bn THEN 1
          ELSE IF ap # bp THEN (IF StrGreater(ap, bp) THEN 1 ELSE -1)
          ELSE comparePrerelease(aParts, bParts, i + 1)

\* SemanticVersion.compare
compare(a, b) ==
  IF a.major # b.major THEN (IF a.major > b.major THEN 1 ELSE -1)
  ELSE IF a.minor # b.minor THEN (IF a.minor > b.minor THEN 1 ELSE -1)
  ELSE IF a.patch # b.patch THEN (IF a.patch > b.patch THEN 1 ELSE -1)
  ELSE IF a.prerelease = <<>> /\ b.prerelease = <<>> THEN 0
  ELSE IF a.prerelease = <<>> THEN 1
  ELSE IF b.prerelease = <<>> THEN -1
  ELSE comparePrerelease(split(a.prerelease, "."), split(b.prerelease, "."), 1)

\* SemanticVersion.parse: the regular expression
\*   ^v?(0|[1-9]\d*)\.(0|[1-9]\d*)\.(0|[1-9]\d*)(?:-(prerelease))?(?:\+(buildmetadata))?$
\* The numeric core holds digits and dots only, so it ends at the first '-' or
\* '+'; a prerelease holds no '+', so it ends at the first '+'.
parse(version) ==
  LET s == IF version # <<>> /\ version[1] = "v" THEN Tail(version) ELSE version
      e == FirstIn(s, {"-", "+"})
      core == split(SubSeq(s, 1, e - 1), ".")
      rest == SubSeq(s, e, Len(s))
      hasPre == rest # <<>> /\ rest[1] = "-"
      plus == FirstIn(rest, {"+"})
      pre == IF hasPre THEN SubSeq(rest, 2, plus - 1) ELSE <<>>
      hasBuild == plus <= Len(rest)
      build == IF hasBuild THEN SubSeq(rest, plus + 1, Len(rest)) ELSE <<>>
  IN IF /\ Len(core) = 3
        /\ \A k \in 1..3 : IsNumeral(core[k])
        /\ (hasPre => (pre # <<>> /\ prerelease_re(pre)))
        /\ (hasBuild => (build # <<>> /\ buildmetadata_re(build)))
       THEN SemanticVersion(StrToNat(core[1]), StrToNat(core[2]), StrToNat(core[3]), pre, build)
       ELSE Undefined

\* prerelease.match(/rc(?:\.|-|_)?(\d+)/i): whether the pattern matches at
\* index i, and the digit run it captures there.
rcMatchAt(s, i) ==
  /\ i + 1 <= Len(s)
  /\ LowerChar(s[i]) = "r" /\ LowerChar(s[i + 1]) = "c"
  /\ \/ (i + 2 <= Len(s) /\ IsDigit(s[i + 2]))
     \/ (i + 3 <= Len(s) /\ s[i + 2] \in {".", "-", "_"} /\ IsDigit(s[i + 3]))

rcDigitsAt(s, i) ==
  LET from == IF IsDigit(s[i + 2]) THEN i + 2 ELSE i + 3
      tail == SubSeq(s, from, Len(s))
      stop == IF \E j \in DOMAIN tail : ~IsDigit(tail[j])
                THEN (CHOOSE j \in DOMAIN tail :
                        ~IsDigit(tail[j]) /\ \A k \in 1..(j - 1) : IsDigit(tail[k]))
                ELSE Len(tail) + 1
  IN SubSeq(tail, 1, stop - 1)

\* The loop body without the comparison of major, minor and patch with base.
nextRcStepAnyVersion(base, maxRc, name) ==
  LET parsed == parse(name) IN
  IF parsed = Undefined \/ parsed.prerelease = <<>> THEN maxRc
  ELSE LET s == parsed.prerelease IN
       IF \E i \in DOMAIN s : rcMatchAt(s, i)
         THEN LET i == CHOOSE i \in DOMAIN s :
                         rcMatchAt(s, i) /\ \A j \in 1..(i - 1) : ~rcMatchAt(s, j)
                  n == StrToNat(rcDigitsAt(s, i))
              IN IF n > maxRc THEN n ELSE maxRc
         ELSE maxRc

\* The body of the loop of nextRcIndex for one tag name: the new maxRc.
nextRcStep(base, maxRc, name) ==
  LET parsed == parse(name) IN
  IF parsed = Undefined THEN maxRc
  ELSE IF /\ parsed.major = base.major /\ parsed.minor = base.minor
          /\ parsed.patch = base.patch /\ parsed.prerelease # <<>>
    THEN LET s == parsed.prerelease IN
         IF \E i \in DOMAIN s : rcMatchAt(s, i)
           THEN LET i == CHOOSE i \in DOMAIN s :
                           rcMatchAt(s, i) /\ \A j \in 1..(i - 1) : ~rcMatchAt(s, j)
                    n == StrToNat(rcDigitsAt(s, i))
                IN IF n > maxRc THEN n ELSE maxRc
           ELSE maxRc
    ELSE maxRc

RECURSIVE nextRcLoop(_, _, _)
nextRcLoop(base, maxRc, tagNames) ==
  IF tagNames = <<>> THEN maxRc
  ELSE nextRcLoop(base, nextRcStep(base, maxRc, Head(tagNames)), Tail(tagNames))

\* SemanticVersion.nextRcIndex
nextRcIndex(base, tagNames) == nextRcLoop(base, -1, tagNames) + 1

(***************************************************************************)
(* PART 4 -- the commit impact classifier (conventional_commits.ts,        *)
(* types.ts).                                                              *)
(***************************************************************************)
\* TypeToImpactMapping of types.ts, as pairs <<type, impact>>.
TypeToImpactMapping ==
  { <<<<"d", "o", "c", "s">>, NOIMPACT>>,
    <<<<"s", "t", "y", "l", "e">>, NOIMPACT>>,
    <<<<"t", "e", "s", "t">>, NOIMPACT>>,
    <<<<"c", "h", "o", "r", "e">>, NOIMPACT>>,
    <<<<"b", "u", "i", "l", "d">>, NOIMPACT>>,
    <<<<"c", "i">>, NOIMPACT>>,
    <<<<"r", "e", "f", "a", "c", "t", "o", "r">>, PATCH>>,
    <<<<"f", "i", "x">>, PATCH>>,
    <<<<"p", "e", "r", "f">>, PATCH>>,
    <<<<"f", "e", "a", "t">>, MINOR>> }

\* The properties every object literal inherits from Object.prototype: the
\* test `type in TypeToImpactMapping` is true of them as well.
InheritedProperties ==
  { <<"c", "o", "n", "s", "t", "r", "u", "c", "t", "o", "r">>,
    <<"h", "a", "s", "O", "w", "n", "P", "r", "o", "p", "e", "r", "t", "y">>,
    <<"i", "s", "P", "r", "o", "t", "o", "t", "y", "p", "e", "O", "f">>,
    <<"p", "r", "o", "p", "e", "r", "t", "y", "I", "s", "E", "n", "u", "m", "e", "r", "a", "b", "l", "e">>,
    <<"t", "o", "L", "o", "c", "a", "l", "e", "S", "t", "r", "i", "n", "g">>,
    <<"t", "o", "S", "t", "r", "i", "n", "g">>,
    <<"v", "a", "l", "u", "e", "O", "f">>,
    <<"_", "_", "p", "r", "o", "t", "o", "_", "_">>,
    <<"_", "_", "d", "e", "f", "i", "n", "e", "G", "e", "t", "t", "e", "r", "_", "_">>,
    <<"_", "_", "d", "e", "f", "i", "n", "e", "S", "e", "t", "t", "e", "r", "_", "_">>,
    <<"_", "_", "l", "o", "o", "k", "u", "p", "G", "e", "t", "t", "e", "r", "_", "_">>,
    <<"_", "_", "l", "o", "o", "k", "u", "p", "S", "e", "t", "t", "e", "r", "_", "_">> }

\* The value TypeToImpactMapping[type] of an inherited property (a function),
\* and NaN: not a member of Impact.
NotAnImpact == -1

OwnTypes == {m[1] : m \in TypeToImpactMapping}
MappedImpact(type) ==
  IF type \in OwnTypes
    THEN (CHOOSE m \in TypeToImpactMapping : m[1] = type)[2]
    ELSE NotAnImpact

\* The one element of a singleton set.  Binding a value as the element of a
\* set evaluates it once where a LET definition is evaluated at each use.
The(S) == CHOOSE x \in S : TRUE

\* The regular expression of ParseConventionalTitle,
\*   ^(?<type>\w+)(?:\((?<scope>[^)]+)\))?(?<breaking>!)?:\s*(?<description>.*)$
\* type is the longest run of word characters (what follows it is no word
\* character).
wordPrefix(title) ==
  IF \E i \in DOMAIN title : ~IsWordChar(title[i])
    THEN (CHOOSE i \in DOMAIN title :
            ~IsWordChar(title[i]) /\ \A j \in 1..(i - 1) : IsWordChar(title[j])) - 1
    ELSE Len(title)

\* The index of the last character of the optional scope after a type of
\* length t: the first ')' after a '(' and one character at least; t when
\* there is no scope.
scopeEnd(title, t) ==
  IF /\ t + 1 <= Len(title) /\ title[t + 1] = "("
     /\ \E c \in (t + 3)..Len(title) : title[c] = ")" /\ \A k \in (t + 2)..(c - 1) : title[k] # ")"
    THEN CHOOSE c \in (t + 3)..Len(title) : title[c] = ")" /\ \A k \in (t + 2)..(c - 1) : title[k] # ")"
    ELSE t

titleGroups(title, t, e) ==
  LET breaking == e + 1 <= Len(title) /\ title[e + 1] = "!"
      colon == IF breaking THEN e + 2 ELSE e + 1
  IN [ok |-> t >= 1 /\ colon <= Len(title) /\ title[colon] = ":",
      type |-> SubSeq(title, 1, t),
      breaking |-> breaking]

TitleMatch(title) ==
  The({titleGroups(title, t, The({scopeEnd(title, t2) : t2 \in {t}})) : t \in {wordPrefix(title)}})

\* ParseConventionalTitle without lines 695-698: the '!' marker is ignored.
parsedTitleIgnoringMarker(m) ==
  IF ~m.ok THEN Undefined
  ELSE IF ~(m.type \in OwnTypes \cup InheritedProperties) THEN Undefined
  ELSE [type |-> m.type, impact |-> MappedImpact(m.type)]

\* ParseConventionalTitle: the result.
parsedTitle(m) ==
  IF ~m.ok THEN Undefined
  ELSE IF ~(m.type \in OwnTypes \cup InheritedProperties) THEN Undefined
  ELSE [type |-> m.type, impact |-> IF m.breaking THEN MAJOR ELSE MappedImpact(m.type)]

ParseConventionalTitle(title) == The({parsedTitle(m) : m \in {TitleMatch(title)}})

\* ParseConventionalTitle: whether it calls core.setFailed, which marks the
\* run failed (a title the regular expression does not match).
ParseConventionalTitleSetsFailed(title) == ~TitleMatch(title).ok

BREAKING_CHANGE == <<"B", "R", "E", "A", "K", "I", "N", "G", " ", "C", "H", "A", "N", "G", "E">>

\* An optional number that is present.
Some(n) == [value |-> n]

\* ParseConventionalBody with a case-insensitive search.
ParseConventionalBodyAnyCase(body) ==
  IF includes(toLowerCase(body), toLowerCase(BREAKING_CHANGE)) THEN Some(MAJOR) ELSE Undefined

\* ParseConventionalBody
ParseConventionalBody(body) == IF includes(body, BREAKING_CHANGE) THEN Some(MAJOR) ELSE Undefined

\* getConventionalImpact deciding on the body alone when it has the marker.
raisedByBodyFirst(impact, body) ==
  IF body # <<>> /\ ParseConventionalBody(body) # Undefined
    THEN [type |-> <<>>, impact |-> MAJOR]
    ELSE impact

\* getConventionalImpact(title, body), from the result of
\* ParseConventionalTitle.  `body_impact > impact.impact` is false when
\* impact.impact is not a number.
raisedByBody(impact, body) ==
  IF impact = Undefined THEN Undefined
  ELSE IF body # <<>> /\ ParseConventionalBody(body) # Undefined
          /\ impact.impact # NotAnImpact /\ ParseConventionalBody(body).value > impact.impact
    THEN [impact EXCEPT !.impact = ParseConventionalBody(body).value]
    ELSE impact

getConventionalImpact(title, body) ==
  The({raisedByBody(impact, body) : impact \in {ParseConventionalTitle(title)}})

(***************************************************************************)
(* PART 5 -- aggregate resolution (main.ts, getImpactFromGithub).          *)
(***************************************************************************)
\* commit_impacts: the classifications of the commits that classify, in order.
RECURSIVE commitImpacts(_)
commitImpacts(commits) ==
  IF commits = <<>> THEN <<>>
  ELSE The({IF ci # Undefined THEN <<ci>> ELSE <<>> :
              ci \in {getConventionalImpact(Head(commits).title, Head(commits).body)}})
         \o commitImpacts(Tail(commits))

\* Math.max over the impacts (NaN as soon as one of them is no number).
MathMax(impacts) ==
  IF \E i \in DOMAIN impacts : impacts[i].impact = NotAnImpact THEN NotAnImpact
  ELSE CHOOSE m \in {impacts[i].impact : i \in DOMAIN impacts} :
         \A i \in DOMAIN impacts : impacts[i].impact <= m

\* max_commit_impact = commit_impacts.length > 0 ? Math.max(...) : Impact.NOIMPACT
maxCommitImpact(impacts) == IF Len(impacts) > 0 THEN Some(MathMax(impacts)) ELSE Some(NOIMPACT)

\* a != b on impact values: NaN and a function differ from everything.
ImpactsDiffer(a, b) == a # b \/ a = NotAnImpact \/ b = NotAnImpact

\* commit_impacts.find((c) => c.impact === max_commit_impact) || undefined
findImpact(impacts, max) ==
  IF max # NotAnImpact /\ \E i \in DOMAIN impacts : impacts[i].impact = max
    THEN impacts[CHOOSE i \in DOMAIN impacts :
                   impacts[i].impact = max /\ \A j \in 1..(i - 1) : impacts[j].impact # max]
    ELSE Undefined

\* The branches of getImpactFromGithub, from pr_impact, commit_impacts and
\* max_commit_impact: the ImpactResult it returns, and in setFailed whether
\* its last branch marked the run failed.
resolveImpact(pr_impact, commit_impacts, max_commit_impact) ==
  LET branch == IF pr_impact # Undefined /\ ImpactsDiffer(pr_impact.impact, max_commit_impact.value) THEN 1
                ELSE IF pr_impact # Undefined THEN 2
                ELSE IF max_commit_impact # Undefined THEN 3
                ELSE 4
  IN [prImpact |-> pr_impact,
      commitImpacts |-> commit_impacts,
      maxCommitImpact |-> max_commit_impact,
      finalImpact |-> CASE branch = 1 -> pr_impact
                        [] branch = 2 -> pr_impact
                        [] branch = 3 -> findImpact(commit_impacts, max_commit_impact.value)
                        [] OTHER -> Undefined,
      warning |-> branch = 1,
      setFailed |-> branch = 4]

\* getImpactFromGithub(pr, commits)
getImpactFromGithub(p, commits) ==
  The({resolveImpact(pr_impact, commit_impacts, The({maxCommitImpact(c) : c \in {commit_impacts}})) :
         pr_impact \in {getConventionalImpact(p.title, p.body)},
         commit_impacts \in {commitImpacts(commits)}})

\* Whether classifying the description and the commits called core.setFailed.
classificationSetsFailed(pr, commits) ==
  \/ ParseConventionalTitleSetsFailed(pr.title)
  \/ \E i \in DOMAIN commits : ParseConventionalTitleSetsFailed(commits[i].title)

(***************************************************************************)
(* PART 6 -- the release-candidate scan getAllRCsSinceLatestRelease and    *)
(* the run (main.ts: run, run_github; handle_release_candidates).          *)
(***************************************************************************)
VARIABLES
  pc,                    \* where the run is: the await it is suspended at
  tag,                   \* the name getLatestTag returned, <<>> when absent
  last_release_version,
  pr,                    \* the pull request of the context
  impactRes,             \* what getImpactFromGithub returned
  failed,                \* the reasons core.setFailed was called with
  new_version,
  outputs,               \* what core.setOutput recorded
  history,               \* the tag names of the repository, as listTags serves them
  scan                   \* the locals of getAllRCsSinceLatestRelease

runVars == <<pc, tag, last_release_version, pr, impactRes, failed, new_version,
             outputs, history, scan>>

\* Bounds of the explored inputs.
MaxTags == 3
MaxCommits == 1
\* per_page of the scan (100 in the source), scaled to the explored histories.
PerPage == 2

\* The tag names the explored repositories hold.
TagPool ==
  { <<"v", "1", ".", "2", ".", "0", "-", "r", "c", ".", "1">>,
    <<"v", "0", ".", "9", ".", "0", "-", "r", "c", ".", "1">>,
    <<"v", "1", ".", "1", ".", "0", "-", "r", "c", ".", "1">>,
    <<"v", "1", ".", "0", ".", "0">>,
    <<"v", "1", ".", "0", ".", "0", "-", "r", "c", "0">>,
    <<"v", "0", ".", "9", ".", "0">>,
    <<"v", "1", ".", "0", ".", "1", "-", "r", "c", "0">>,
    <<"v", "1", ".", "0", ".", "1", "-", "R", "C", "1">>,
    <<"v", "1", ".", "0", ".", "1", "-", "b", "e", "t", "a", ".", "1">>,
    <<"l", "a", "t", "e", "s", "t">> }

\* The tag lists of at most MaxTags distinct names of a pool.
HistoriesOver(pool) ==
  UNION {{h \in [1..n -> pool] : \A i, j \in 1..n : i < j => h[i] # h[j]} : n \in 0..MaxTags}

Histories == HistoriesOver(TagPool)

\* The tag names the repositories of the explored runs hold.
RunTagPool ==
  { <<"v", "1", ".", "0", ".", "0">>,
    <<"v", "1", ".", "0", ".", "0", "-", "r", "c", "0">>,
    <<"v", "1", ".", "0", ".", "1", "-", "r", "c", "0">>,
    <<"v", "1", ".", "0", ".", "1", "-", "R", "C", "1">>,
    <<"v", "0", ".", "9", ".", "0", "-", "r", "c", ".", "1">>,
    <<"l", "a", "t", "e", "s", "t">> }

RunHistories == HistoriesOver(RunTagPool)

\* What getLatestTag returns in the explored runs: nothing, or one of these.
LatestTags == {<<"v", "1", ".", "0", ".", "0">>, <<"v", "1", ".", "0", ".", "0", "-", "r", "c", "0">>, <<"l", "a", "t", "e", "s", "t">>}

\* The baselines the scan is explored with on its own.
Baselines ==
  { SemanticVersion(1, 0, 0, <<>>, <<>>),
    SemanticVersion(1, 0, 0, <<"r", "c", "0">>, <<>>),
    SemanticVersion(0, 0, 0, <<>>, <<>>) }

RELEASE_CANDIDATE == <<"r", "e", "l", "e", "a", "s", "e", "-", "c", "a", "n", "d", "i", "d", "a", "t", "e">>
LabelSets == {{<<"b", "u", "g">>}, {<<"b", "u", "g">>, <<"R", "e", "l", "e", "a", "s", "e", "-", "C", "a", "n", "d", "i", "d", "a", "t", "e">>}}

\* Title and body of the explored pull requests.
Descriptions ==
  { [title |-> <<"f", "e", "a", "t", ":", " ", "x">>, body |-> <<>>],
    [title |-> <<"f", "i", "x", ":", " ", "x">>, body |-> <<>>],
    [title |-> <<"d", "o", "c", "s", ":", " ", "x">>, body |-> <<>>],
    [title |-> <<"d", "o", "c", "s", "(", "a", ")", ":", " ", "x">>, body |-> BREAKING_CHANGE \o <<":">>],
    [title |-> <<"f", "o", "o", ":", " ", "x">>, body |-> <<>>],
    [title |-> <<"M", "e", "r", "g", "e", " ", "m", "a", "i", "n">>, body |-> <<>>] }

PullRequests ==
  {[title |-> d.title, body |-> d.body, labels |-> l, merged |-> m] :
     d \in Descriptions, l \in LabelSets, m \in BOOLEAN}

\* The explored commits of a pull request.
CommitPool ==
  { [title |-> <<"f", "i", "x", ":", " ", "y">>, body |-> <<>>],
    [title |-> <<"f", "e", "a", "t", "!", ":", " ", "y">>, body |-> <<>>],
    [title |-> <<"w", "i", "p">>, body |-> <<>>] }

CommitLists == UNION {[1..n -> CommitPool] : n \in 0..MaxCommits}

\* The explored values of the input build-metadata; the last one is outside
\* the build metadata grammar.
BuildMetadataInputs == {<<>>, <<"b", "1">>, <<"b", "_">>}

IdleScan == [st |-> "idle", baseline |-> Undefined, page |-> 1, results |-> <<>>, failed |-> FALSE,
             requested |-> <<>>]

RunIdle ==
  /\ pc = "idle"
  /\ tag = <<>>
  /\ last_release_version = Undefined
  /\ pr = Undefined
  /\ impactRes = Undefined
  /\ failed = {}
  /\ new_version = Undefined
  /\ outputs = Undefined
  /\ history = <<>>
  /\ scan = IdleScan

\* The same test without toLowerCase.
indicatesRcCaseSensitive(prerelease) == includes(prerelease, <<"r", "c">>)
\* parsed.prerelease.toLowerCase().includes('rc')
indicatesRc(prerelease) == includes(toLowerCase(prerelease), <<"r", "c">>)

\* The for loop of the scan without the return at an older tag (lines
\* 150-155): an older release candidate is passed over.
RECURSIVE scanTagsNoReturn(_, _, _)
scanTagsNoReturn(data, baseline, results) ==
  IF data = <<>> THEN [results |-> results, returned |-> FALSE]
  ELSE LET parsed == parse(Head(data)) IN
       IF parsed = Undefined THEN scanTagsNoReturn(Tail(data), baseline, results)
       ELSE IF parsed.prerelease = <<>> THEN scanTagsNoReturn(Tail(data), baseline, results)
       ELSE IF ~indicatesRc(parsed.prerelease) THEN scanTagsNoReturn(Tail(data), baseline, results)
       ELSE IF compare(parsed, baseline) <= 0 THEN scanTagsNoReturn(Tail(data), baseline, results)
       ELSE scanTagsNoReturn(Tail(data), baseline, Append(results, Head(data)))

\* The for loop of the scan over one page: the results after it, and whether
\* it returned from the function.
RECURSIVE scanTags(_, _, _)
scanTags(data, baseline, results) ==
  IF data = <<>> THEN [results |-> results, returned |-> FALSE]
  ELSE LET parsed == parse(Head(data)) IN
       IF parsed = Undefined THEN scanTags(Tail(data), baseline, results)
       ELSE IF parsed.prerelease = <<>> THEN scanTags(Tail(data), baseline, results)
       ELSE IF ~indicatesRc(parsed.prerelease) THEN scanTags(Tail(data), baseline, results)
       ELSE IF compare(parsed, baseline) < 0 THEN [results |-> results, returned |-> TRUE]
       ELSE IF compare(parsed, baseline) = 0 THEN scanTags(Tail(data), baseline, results)
       ELSE scanTags(Tail(data), baseline, Append(results, Head(data)))

\* What listTags serves for a page.
listTagsPage(page) ==
  SubSeq(history, (page - 1) * PerPage + 1,
         IF page * PerPage < Len(history) THEN page * PerPage ELSE Len(history))

\* getAllRCsSinceLatestRelease(token, baseline) up to its first await: the
\* request of page 1 is sent.  `requested` holds the pages requested of the
\* source so far, in the order of the requests.
startScan(baseline) == [st |-> "listing", baseline |-> baseline, page |-> 1,
                        results |-> <<>>, failed |-> FALSE, requested |-> <<1>>]

\* One turn of the while loop of the scan: the listTags request of the page
\* settles.  A rejected request ends the function in its catch with [].
ListTagsResumes ==
  /\ scan.st = "listing"
  /\ \/ scan' = [scan EXCEPT !.st = "returned", !.results = <<>>, !.failed = TRUE]
     \/ LET data == listTagsPage(scan.page)
            r == scanTags(data, scan.baseline, scan.results)
        IN scan' = IF Len(data) = 0 THEN [scan EXCEPT !.st = "returned"]
                   ELSE IF r.returned THEN [scan EXCEPT !.st = "returned", !.results = r.results]
                   ELSE IF Len(data) < PerPage
                     THEN [scan EXCEPT !.st = "returned", !.results = r.results]
                   ELSE [scan EXCEPT !.results = r.results, !.page = scan.page + 1,
                                     !.requested = Append(scan.requested, scan.page + 1)]
  /\ UNCHANGED <<pc, tag, last_release_version, pr, impactRes, failed, new_version,
                 outputs, history>>

\* get_last_release_version starting from 1.0.0 when there is no tag.
get_last_release_version_one(t) ==
  IF t # <<>> /\ parse(t) # Undefined THEN parse(t) ELSE SemanticVersion(1, 0, 0, <<>>, <<>>)

\* get_last_release_version(tag)
get_last_release_version(t) ==
  IF t # <<>> /\ parse(t) # Undefined THEN parse(t) ELSE SemanticVersion(0, 0, 0, <<>>, <<>>)

\* pr.labels?.some((label) => label.name.toLowerCase() === 'release-candidate')
hasReleaseCandidateLabel(p) == \E label \in p.labels : toLowerCase(label) = RELEASE_CANDIDATE

\* is_prerelease without lines 195-198: the merged flag is not looked at.
is_prerelease_by_label(p) == hasReleaseCandidateLabel(p)

\* is_prerelease of run_github: the label is set and the pull request is not
\* merged.
is_prerelease(p) == hasReleaseCandidateLabel(p) /\ ~p.merged

\* The release output set whenever the pull request is merged.
setOutputsReleaseOnMerge(p, impact, prerelease, v) ==
  [release |-> p.merged \/ prerelease # <<>>,
   prerelease |-> prerelease # <<>>,
   tag |-> as_tag(v),
   version |-> toString(v)]

\* The outputs run_github sets (release, prerelease, tag and version; an
\* undefined prerelease is <<>>).
setOutputs(p, impact, prerelease, v) ==
  [release |-> (p.merged /\ impact # NOIMPACT) \/ prerelease # <<>>,
   prerelease |-> prerelease # <<>>,
   tag |-> as_tag(v),
   version |-> toString(v)]

\* run: without a token the run is marked failed and ends; otherwise
\* run_github starts and suspends at getLatestTag (the release notes format it
\* loads before is not part of the model).
run ==
  /\ pc = "start"
  /\ \E token \in BOOLEAN :
       IF ~token
         THEN failed' = failed \cup {"no github-token"} /\ pc' = "returned"
         ELSE failed' = failed /\ pc' = "awaitLatestTag"
  /\ UNCHANGED <<tag, last_release_version, pr, impactRes, new_version, outputs, history, scan>>

\* run_github from the result of getLatestTag to its return without a pull
\* request, or to the await of getPrCommits.
LatestTagResumes ==
  /\ pc = "awaitLatestTag"
  /\ \E t \in LatestTags \cup {<<>>}, p \in PullRequests \cup {Undefined} :
       /\ tag' = t
       /\ last_release_version' = get_last_release_version(t)
       /\ pr' = p
       /\ failed' = failed
            \cup (IF t # <<>> /\ parse(t) = Undefined THEN {"tag does not parse"} ELSE {})
            \cup (IF p = Undefined THEN {"no pull request"} ELSE {})
       /\ pc' = IF p = Undefined THEN "returned" ELSE "awaitPrCommits"
  /\ UNCHANGED <<impactRes, new_version, outputs, history, scan>>

\* run_github from the result of getPrCommits: getImpactFromGithub runs to its
\* end (it awaits nothing) and run_github awaits its promise.
PrCommitsResumes ==
  /\ pc = "awaitPrCommits"
  /\ \E commits \in CommitLists :
       \E res \in {getImpactFromGithub(pr, commits)} :
       /\ impactRes' = res
       /\ failed' = failed
            \cup (IF classificationSetsFailed(pr, commits) THEN {"title"} ELSE {})
            \cup (IF res.setFailed THEN {"no impact"} ELSE {})
  /\ pc' = "awaitImpact"
  /\ UNCHANGED <<tag, last_release_version, pr, new_version, outputs, history, scan>>

\* The end of run_github from `new SemanticVersion(...)`: the constructor throws
\* on a prerelease or build metadata outside the grammar, which run catches
\* with setFailed; otherwise the outputs are set.
emit(impact, bumped_base_version, prerelease) ==
  \E build_metadata \in BuildMetadataInputs :
    IF ConstructorThrows(prerelease, build_metadata)
      THEN /\ failed' = failed \cup {"exception"}
           /\ pc' = "returned"
           /\ UNCHANGED <<new_version, outputs>>
      ELSE LET v == SemanticVersion(bumped_base_version.major, bumped_base_version.minor,
                                    bumped_base_version.patch, prerelease, build_metadata)
           IN /\ new_version' = v
              /\ outputs' = setOutputs(pr, impact, prerelease, v)
              /\ pc' = "done"
              /\ failed' = failed

\* run_github from the result of getImpactFromGithub: it returns when there is
\* no final impact; otherwise it bumps, and either starts the scan of the
\* release candidates (the label is set and the pull request is not merged) or
\* goes on to its end.  The scan reads the tags of the repository, whose newest
\* one getLatestTag returned.
ImpactResumes ==
  /\ pc = "awaitImpact"
  /\ IF impactRes.finalImpact = Undefined
       THEN /\ pc' = "returned"
            /\ UNCHANGED <<failed, new_version, outputs, history, scan>>
       ELSE LET impact == impactRes.finalImpact.impact
                bumped_base_version == bump(last_release_version, impact, <<>>, <<>>)
            IN IF is_prerelease(pr)
                 THEN /\ \E h \in RunHistories :
                           /\ IF tag = <<>> THEN h = <<>> ELSE h # <<>> /\ h[1] = tag
                           /\ history' = h
                      /\ scan' = startScan(last_release_version)
                      /\ pc' = "awaitReleaseCandidates"
                      /\ UNCHANGED <<failed, new_version, outputs>>
                 ELSE /\ emit(impact, bumped_base_version, <<>>)
                      /\ UNCHANGED <<history, scan>>
  /\ UNCHANGED <<tag, last_release_version, pr, impactRes>>

\* handle_release_candidates from the result of the scan, and run_github to its
\* end: prerelease = `rc${nextRc}`.
ReleaseCandidatesResume ==
  /\ pc = "awaitReleaseCandidates"
  /\ scan.st = "returned"
  /\ LET impact == impactRes.finalImpact.impact
         bumped_base == bump(last_release_version, impact, <<>>, <<>>)
         tagNames == scan.results
         nextRc == nextRcIndex(bumped_base, tagNames)
     IN emit(impact, bumped_base, <<"r", "c">> \o NatToStr(nextRc))
  /\ UNCHANGED <<tag, last_release_version, pr, impactRes, history, scan>>

(***************************************************************************)
(* PART 7 -- calls of the pure functions.                                  *)
(***************************************************************************)
VARIABLES
  call,                  \* the function called and its arguments
  ret                    \* what it returned, as Some(value)
fnVars == <<call, ret>>

NoCall == [fn |-> "none"]
Pending == [pending |-> TRUE]

FnIdle == call = NoCall /\ ret = Pending

\* The tag names and bases nextRcIndex is explored with.
RcTagNames ==
  { <<"v", "1", ".", "2", ".", "3", "-", "r", "c", "0">>,
    <<"v", "1", ".", "2", ".", "3", "-", "r", "c", "2">>,
    <<"v", "1", ".", "2", ".", "3", "-", "r", "c", "1">>,
    <<"1", ".", "2", ".", "3", "-", "R", "C", ".", "7">>,
    <<"v", "1", ".", "2", ".", "4", "-", "r", "c", "9">>,
    <<"v", "1", ".", "2", ".", "3", "-", "r", "c">>,
    <<"v", "1", ".", "2", ".", "3">>,
    <<"v", "1", ".", "2", ".", "3", "-", "1", ".", "x", "r", "c", "-", "1", "2">>,
    <<"r", "c", "5">> }

RcTagLists == UNION {[1..n -> RcTagNames] : n \in 0..MaxTags}
RcBases == {SemanticVersion(1, 2, 3, <<>>, <<>>), SemanticVersion(1, 2, 4, <<>>, <<>>)}

CallNextRcIndex ==
  /\ call.fn = "nextRcIndex"
  /\ ret = Pending
  /\ ret' = Some(nextRcIndex(call.base, call.tagNames))
  /\ UNCHANGED call

\* A call that ended by throwing.
Threw == [threw |-> TRUE]

\* The versions compare is explored with.
CompareTriples == {<<1, 0, 0>>, <<1, 0, 1>>, <<1, 1, 0>>, <<0, 2, 1>>}
ComparePrereleases ==
  { <<>>, <<"r", "c">>, <<"r", "c", ".", "1">>, <<"r", "c", ".", "2">>, <<"r", "c", ".", "1", "0">>, <<"2">>, <<"1", "0">>, <<"r", "c", ".", "1", ".", "0">>,
    <<"a", "l", "p", "h", "a">>, <<"R", "c">>, <<"r", "c", "-", "1">>, <<"1", "a">>, <<"r", "c", ".", "r", "c">> }
CompareBuilds == {<<>>, <<"b", "1">>}
CompareVersions ==
  {SemanticVersion(t[1], t[2], t[3], p, b) :
     t \in CompareTriples, p \in ComparePrereleases, b \in CompareBuilds}

CallCompare ==
  /\ call.fn = "compare"
  /\ ret = Pending
  /\ ret' = Some(compare(call.a, call.b))
  /\ UNCHANGED call

\* The versions and arguments bump is explored with; the last prerelease
\* arguments and the last buildmetadata argument are outside their grammars.
BumpVersions ==
  { SemanticVersion(1, 2, 3, <<>>, <<>>),
    SemanticVersion(1, 2, 3, <<"r", "c", ".", "1">>, <<"b", "1">>),
    SemanticVersion(0, 0, 0, <<>>, <<>>),
    SemanticVersion(2, 9, 0, <<"a", "l", "p", "h", "a">>, <<>>) }
BumpPrereleases == {<<>>, <<"r", "c", "0">>, <<"r", "c", ".", "1">>, <<"0", "1">>, <<"a", ".", ".", "b">>}
BumpBuilds == {<<>>, <<"b", "2">>, <<"b", "_">>}

\* this.bump(impact, prerelease, buildmetadata): the constructor it calls
\* throws on an argument outside its grammar.
CallBump ==
  /\ call.fn = "bump"
  /\ ret = Pending
  /\ ret' = IF ConstructorThrows(call.prerelease, call.buildmetadata)
              THEN Threw
              ELSE Some(bump(call.v, call.impact, call.prerelease, call.buildmetadata))
  /\ UNCHANGED call

\* The titles ParseConventionalTitle is explored with: every recognized type
\* with and without a scope, a '!' and a description, and titles whose type is
\* not recognized or that do not match the regular expression.
TitleScopes == {<<>>, <<"(", "a", "p", "i", ")">>, <<"(", "a", " ", "b", ")">>, <<"(", "a", "(", "b", ")">>}
TitleMarkers == {<<>>, <<"!">>}
TitleDescriptions == {<<>>, <<" ", "x">>, <<"x">>, <<" ", "a", "d", "d", ":", " ", "y", "!">>}
composeTitle(type, scope, marker, description) ==
  type \o scope \o marker \o <<":">> \o description
ConventionalTitles ==
  {composeTitle(type, scope, marker, description) :
     type \in OwnTypes, scope \in TitleScopes, marker \in TitleMarkers,
     description \in TitleDescriptions}
OtherTitles ==
  { <<"f", "o", "o", ":", " ", "x">>, <<"F", "e", "a", "t", ":", " ", "x">>, <<"F", "E", "A", "T", ":", " ", "x">>, <<"f", "e", "a", "t", "-", "p", "r", "o", "d", ":", " ", "x">>, <<"f", "e", "a", "t", " ", ":", " ", "x">>, <<"f", "e", "a", "t", " ", "x">>,
    <<>>, <<":", " ", "x">>, <<"f", "e", "a", "t", "(", ")", ":", " ", "x">>, <<"f", "e", "a", "t", "(", "a", ":", " ", "x">>, <<"f", "e", "a", "t", "!", "!", ":", " ", "x">>, <<"f", "e", "a", "t", "!", "(", "a", ")", ":", " ", "x">>,
    <<" ", "f", "e", "a", "t", ":", " ", "x">>, <<"f", "i", "x", "1", ":", " ", "x">>, <<"f", "i", "x", "_", ":", " ", "x">>, <<"f", "o", "o", "!", ":", " ", "x">>, <<"F", "i", "x", "(", "a", ")", "!", ":", " ", "x">>, <<"t", "h", "i", "s", " ", "i", "s", " ", "n", "o", "t", " ", "c", "o", "n", "v", "e", "n", "t", "i", "o", "n", "a", "l">>,
    <<"c", "o", "n", "s", "t", "r", "u", "c", "t", "o", "r", ":", " ", "x">>, <<"t", "o", "S", "t", "r", "i", "n", "g", "!", ":", " ", "x">>, <<"v", "a", "l", "u", "e", "O", "f", "(", "a", ")", ":", " ", "x">>, <<"_", "_", "p", "r", "o", "t", "o", "_", "_", ":", " ", "x">> }
Titles == ConventionalTitles \cup OtherTitles

\* A call of ParseConventionalTitle: what it returned and whether it called
\* core.setFailed.
CallParseConventionalTitle ==
  /\ call.fn = "ParseConventionalTitle"
  /\ ret = Pending
  /\ ret' = [value |-> ParseConventionalTitle(call.title),
             setFailed |-> ParseConventionalTitleSetsFailed(call.title)]
  /\ UNCHANGED call

\* The bodies ParseConventionalBody is explored with: the marker, and texts
\* that differ from it in case or in one character, anywhere in the body.
BodyPrefixes == {<<>>, <<"x">>, <<"d", "e", "s", "c">> \o <<"\n", "\n">>, <<"B", "R", "E", "A", "K", "I", "N", "G", " ">>}
BodyMarkers ==
  { BREAKING_CHANGE, <<"b", "r", "e", "a", "k", "i", "n", "g", " ", "c", "h", "a", "n", "g", "e">>, <<"B", "r", "e", "a", "k", "i", "n", "g", " ", "C", "h", "a", "n", "g", "e">>, <<"B", "R", "E", "A", "K", "I", "N", "G", "-", "C", "H", "A", "N", "G", "E">>,
    <<"B", "R", "E", "A", "K", "I", "N", "G", " ", " ", "C", "H", "A", "N", "G", "E">>, <<"B", "R", "E", "A", "K", "I", "N", "G", "C", "H", "A", "N", "G", "E">>, <<"B", "R", "E", "A", "K", "I", "N", "G", " ", "C", "H", "A", "N", "G">>, <<"R", "E", "A", "K", "I", "N", "G", " ", "C", "H", "A", "N", "G", "E">>,
    <<"B", "R", "E", "A", "K", "I", "N", "G">> \o <<"\n">> \o <<"C", "H", "A", "N", "G", "E">>, <<"n", "o", "r", "m", "a", "l", " ", "b", "o", "d", "y">>, <<>> }
BodySuffixes == {<<>>, <<":", " ", "r", "e", "m", "o", "v", "e", "d">>, <<"S">>, <<"E">>}
Bodies ==
  {prefix \o marker \o suffix :
     prefix \in BodyPrefixes, marker \in BodyMarkers, suffix \in BodySuffixes}

CallParseConventionalBody ==
  /\ call.fn = "ParseConventionalBody"
  /\ ret = Pending
  /\ ret' = ParseConventionalBody(call.body)
  /\ UNCHANGED call

\* The bodies getConventionalImpact is explored with (<<>> is an absent or
\* empty body).
ImpactBodies ==
  { <<>>, <<"B", "R", "E", "A", "K", "I", "N", "G", " ", "C", "H", "A", "N", "G", "E", ":", " ", "y">>, <<"d", "e", "t", "a", "i", "l", "s">>, <<"b", "r", "e", "a", "k", "i", "n", "g", " ", "c", "h", "a", "n", "g", "e", ":", " ", "y">>,
    <<"x">> \o <<"\n", "\n">> \o <<"B", "R", "E", "A", "K", "I", "N", "G", " ", "C", "H", "A", "N", "G", "E">> }

CallGetConventionalImpact ==
  /\ call.fn = "getConventionalImpact"
  /\ ret = Pending
  /\ ret' = [value |-> getConventionalImpact(call.title, call.body)]
  /\ UNCHANGED call

\* The versions formatted and parsed back: triples with one, two and three
\* digit numerals, and prereleases and build metadata of every identifier
\* kind.
FormatNumerals == {0, 1, 10, 209}
FormatPrereleases ==
  {<<>>, <<"r", "c", ".", "1">>, <<"0">>, <<"a", "l", "p", "h", "a", "-", "1">>, <<"0", "a", ".", "b">>, <<"-">>, <<"x", ".", "0", ".", "1", "0">>, <<"R", "C", "1">>}
FormatBuilds == {<<>>, <<"b", "1">>, <<"0", "0", "1">>, <<"a", ".", "b", "-", "c">>, <<"-">>}
FormatVersions ==
  {SemanticVersion(major, minor, patch, prerelease, buildmetadata) :
     major \in FormatNumerals, minor \in FormatNumerals, patch \in {0, 3},
     prerelease \in FormatPrereleases, buildmetadata \in FormatBuilds}

\* v.toString() or v.as_tag()
CallFormat ==
  /\ call.fn \in {"toString", "as_tag"}
  /\ ret = Pending
  /\ ret' = Some(IF call.fn = "toString" THEN toString(call.v) ELSE as_tag(call.v))
  /\ UNCHANGED call

\* The text produced is handed to SemanticVersion.parse.
ParseFormatted ==
  /\ call.fn \in {"toString", "as_tag"}
  /\ ret # Pending
  /\ call' = [fn |-> "parse", version |-> ret.value, v |-> call.v]
  /\ ret' = Pending

\* SemanticVersion.parse(version): a version or undefined; no statement of
\* parse throws (the constructor is called without prerelease and build
\* metadata).
CallParse ==
  /\ call.fn = "parse"
  /\ ret = Pending
  /\ ret' = The({IF v = Undefined THEN Undefined ELSE Some(v) : v \in {parse(call.version)}})
  /\ UNCHANGED call

\* The texts parse is explored with, composed of a prefix, a numeric core, a
\* prerelease part, a build metadata part and a suffix.
TextPrefixes == {<<>>, <<"v">>, <<"V">>, <<"v", "v">>, <<" ">>}
TextCores ==
  { <<"1", ".", "2", ".", "3">>, <<"0", ".", "0", ".", "0">>, <<"1", "0", ".", "2", "0", ".", "3", "0">>, <<"0", "1", ".", "2", ".", "3">>, <<"1", ".", "0", "2", ".", "3">>, <<"1", ".", "2", ".", "0", "3">>, <<"0", "0", ".", "0", ".", "0">>,
    <<"1", ".", "2">>, <<"1", ".", "2", ".", "3", ".", "4">>, <<"1", ".", ".", "3">>, <<".", "1", ".", "2">>, <<"1", ".", "2", ".", "3", ".">>, <<"1", ".", "2", ".", "x">>, <<"a", ".", "b", ".", "c">>, <<"1", ",", "2", ",", "3">>,
    <<"n", "o", "t">>, <<>> }
TextPrereleases ==
  { <<>>, <<"-", "r", "c", ".", "1">>, <<"-", "0">>, <<"-", "0", "1">>, <<"-">>, <<"-", "r", "c", ".", ".", "1">>, <<"-", "a", "-", "b">>, <<"-", "0", "a">>, <<"-", "r", "c", "_", "1">>,
    <<"-", "r", "c", ".">>, <<"-", ".", "r", "c">>, <<"-", "a", "-", "v", "e", "r", "s", "i", "o", "n">> }
TextBuilds == {<<>>, <<"+", "b", "1">>, <<"+", "0", "0", "1">>, <<"+">>, <<"+", "b", ".", "1", "-", "x">>, <<"+", "b", "+", "c">>, <<"+", "b", "_">>, <<"+", "b", ".", ".", "c">>}
TextSuffixes == {<<>>, <<" ">>, <<"\n">>}
ParseTexts ==
  {prefix \o core \o prerelease \o buildmetadata \o suffix :
     prefix \in TextPrefixes, core \in TextCores, prerelease \in TextPrereleases,
     buildmetadata \in TextBuilds, suffix \in TextSuffixes}

(***************************************************************************)
(* parse_pep440 (pep440.ts).  The pattern carries the g flag, so            *)
(* version.match(pep440) is null when the pattern matches nowhere (every    *)
(* match holds a digit of the release) and otherwise the array of the       *)
(* matched texts, which has no `groups` property.                           *)
(***************************************************************************)
pep440MatchIsNull(version) == ~\E i \in DOMAIN version : IsDigit(version[i])

\* match.groups of the array a global match returns.
pep440Groups(version) == Undefined

\* parse_pep440 from line 15 on, given the named groups (<<>> for a group that
\* did not take part): the version constructed, or Threw when the
\* constructor throws.
pep440Version(groups) ==
  LET release_parts == split(groups.release, ".")
      major == StrToNat(release_parts[1])
      minor == IF Len(release_parts) >= 2 THEN StrToNat(release_parts[2]) ELSE 0
      patch == IF Len(release_parts) >= 3 THEN StrToNat(release_parts[3]) ELSE 0
      post_n == IF groups.post_n1 # <<>> THEN groups.post_n1 ELSE groups.post_n2
      numbered(label, n) == label \o (IF n # <<>> THEN <<".">> \o n ELSE <<>>)
      prerelease ==
        IF groups.pre_l # <<>> THEN numbered(groups.pre_l, groups.pre_n)
        ELSE IF groups.post_n1 # <<>> \/ groups.post_l # <<>>
          THEN numbered(<<"p", "o", "s", "t">>, post_n)
        ELSE IF groups.dev_l # <<>> THEN numbered(<<"d", "e", "v">>, groups.dev_n)
        ELSE <<>>
  IN IF ConstructorThrows(prerelease, groups.local) THEN Threw
     ELSE SemanticVersion(major, minor, patch, prerelease, groups.local)

parse_pep440(version) ==
  IF pep440MatchIsNull(version) \/ pep440Groups(version) = Undefined THEN Undefined
  ELSE pep440Version(pep440Groups(version))

\* The arguments the constructor is explored with.
ConstructorTriples == {<<1, 0, 0>>, <<0, 0, 0>>}
ConstructorPrereleases ==
  { <<>>, <<"r", "c", ".", "1">>, <<"0">>, <<"0", "a">>, <<"0", "0", "a">>, <<"-">>, <<"0", "1">>, <<"1", ".", "0", "2">>, <<"r", "c", ".", ".", "1">>, <<".", "r", "c">>,
    <<"r", "c", ".">>, <<"*", "b", "a", "d", "*">>, <<"r", "c", "_", "1">>, <<"a", " ", "b">>, <<"r", "c", "+", "1">> }
ConstructorBuilds ==
  {<<>>, <<"b", "1">>, <<"0", "0", "1">>, <<"a", ".", "b", "-", "c">>, <<"b", "a", "d", " ", "m", "e", "t", "a">>, <<"b", "_">>, <<"b", ".", ".", "c">>, <<"b", "+", "c">>, <<".">>}

\* new SemanticVersion(major, minor, patch, prerelease, buildmetadata)
CallConstructor ==
  /\ call.fn = "constructor"
  /\ ret = Pending
  /\ ret' = IF ConstructorThrows(call.prerelease, call.buildmetadata) THEN Threw
            ELSE Some(SemanticVersion(call.major, call.minor, call.patch,
                                      call.prerelease, call.buildmetadata))
  /\ UNCHANGED call

\* The texts parse_pep440 is explored with.
Pep440Texts ==
  { <<"1", ".", "2", ".", "3">>, <<"1", "!", "2", ".", "3", ".", "4", "r", "c", "1", "+", "l", "o", "c", "a", "l">>, <<"v", "0", ".", "1", ".", "0", ".", "d", "e", "v", "3", "+", "m", "e", "t", "a">>, <<"1", ".", "2", ".", "3", "a", "1">>, <<"1", ".", "0", "r", "c", "0", "1">>,
    <<"1", ".", "0", "+", "a", "_", "b">>, <<"2", ".", "0", ".", "p", "o", "s", "t", "3">>, <<"1", ".", "0", "-", "1">>, <<"1", ".", "2", ".", "x">>, <<"n", "o", "t", "-", "a", "-", "v", "e", "r", "s", "i", "o", "n">>, <<>> }

CallParsePep440 ==
  /\ call.fn = "parse_pep440"
  /\ ret = Pending
  /\ ret' = The({IF v \in {Undefined, Threw} THEN v ELSE Some(v) :
                   v \in {parse_pep440(call.version)}})
  /\ UNCHANGED call

\* The versions compare is explored with three at a time.
OrderVersions ==
  {SemanticVersion(t[1], t[2], t[3], p, <<>>) :
     t \in {<<1, 0, 0>>, <<1, 0, 1>>},
     p \in {<<>>, <<"r", "c">>, <<"r", "c", ".", "1">>, <<"r", "c", ".", "2">>, <<"r", "c", ".", "1", "0">>, <<"2">>, <<"1", "0">>, <<"1", "a">>, <<"R", "c">>, <<"r", "c", ".", "1", ".", "0">>}}
    \cup {SemanticVersion(1, 0, 0, <<"r", "c", ".", "1">>, <<"b", "1">>)}

\* compare on each pair of three versions.
CallCompareThree ==
  /\ call.fn = "compare3"
  /\ ret = Pending
  /\ ret' = [aa |-> compare(call.a, call.a), ab |-> compare(call.a, call.b),
             ba |-> compare(call.b, call.a), bc |-> compare(call.b, call.c),
             ac |-> compare(call.a, call.c)]
  /\ UNCHANGED call

\* Objects: `objects` is the sequence of the SemanticVersion instances that
\* exist, an instance being known by its index.  bump reads the fields of
\* `this` and returns a new instance; it assigns no field of `this`.
bumpInPlace(objects, this, impact, prerelease, buildmetadata) ==
  [objects |-> [objects EXCEPT ![this] = bump(objects[this], impact, prerelease, buildmetadata)],
   result |-> this]

bumpObject(objects, this, impact, prerelease, buildmetadata) ==
  [objects |-> Append(objects, bump(objects[this], impact, prerelease, buildmetadata)),
   result |-> Len(objects) + 1]

\* v.bump(impact, prerelease, buildmetadata) on the instance call.this.
CallBumpObject ==
  /\ call.fn = "bump_object"
  /\ ret = Pending
  /\ IF ConstructorThrows(call.prerelease, call.buildmetadata)
       THEN ret' = Threw /\ UNCHANGED call
       ELSE \E r \in {bumpObject(call.objects, call.this, call.impact,
                                 call.prerelease, call.buildmetadata)} :
              /\ call' = [call EXCEPT !.objects = r.objects]
              /\ ret' = Some(r.result)

\* The packaging-format texts parse_pep440 is explored with: an optional 'v'
\* or epoch, one to three release segments, and optional pre-release,
\* post-release, dev and local segments.
Pep440Leads == {<<>>, <<"v">>, <<"1", "!">>}
Pep440Releases == {<<"1">>, <<"1", ".", "2">>, <<"1", ".", "2", ".", "3">>, <<"0", ".", "1", ".", "0">>}
Pep440Pres == {<<>>, <<"a", "1">>, <<"b", "2">>, <<"r", "c", "1">>, <<"-", "p", "r", "e", "v", "i", "e", "w", "1">>}
Pep440Posts == {<<>>, <<".", "p", "o", "s", "t", "2">>}
Pep440Devs == {<<>>, <<".", "d", "e", "v", "3">>}
Pep440Locals == {<<>>, <<"+", "m", "e", "t", "a">>}
composePep440(lead, release, pre, post, dev, local) ==
  lead \o release \o pre \o post \o dev \o local
Pep440Composed ==
  {composePep440(lead, release, pre, post, dev, local) :
     lead \in Pep440Leads, release \in Pep440Releases, pre \in Pep440Pres,
     post \in Pep440Posts, dev \in Pep440Devs, local \in Pep440Locals}

(***************************************************************************)
(* SemanticVersion.as_pep_440 (semver.ts).                                 *)
(***************************************************************************)
\* String.prototype.replace(/-/g, ".")
replaceHyphens(s) == [i \in DOMAIN s |-> IF s[i] = "-" THEN "." ELSE s[i]]

\* The length of the longest prefix of s made of characters of chars.
leadingRun(s, chars) == Cardinality({i \in DOMAIN s : \A j \in 1..i : s[j] \in chars})

\* `${f}` of a built-in function named name.
NativeFunctionText(name) ==
  <<"f", "u", "n", "c", "t", "i", "o", "n", " ">> \o name \o <<"(", ")", " ", "{", " ", "[", "n", "a", "t", "i", "v", "e", " ", "c", "o", "d", "e", "]", " ", "}">>

\* mapping[p1] ? mapping[p1] + p2 : p1 + p2, the mapping being an object
\* literal with the keys alpha, beta and rc: mapping[p1] of a property
\* inherited from Object.prototype is a function, which is truthy and is
\* concatenated as its text.
mappedLabel(p1) ==
  CASE p1 = <<"a", "l", "p", "h", "a">> -> <<"a">>
    [] p1 = <<"b", "e", "t", "a">> -> <<"b">>
    [] p1 = <<"r", "c">> -> <<"r", "c">>
    [] p1 = <<"c", "o", "n", "s", "t", "r", "u", "c", "t", "o", "r">> -> NativeFunctionText(<<"O", "b", "j", "e", "c", "t">>)
    [] p1 \in InheritedProperties /\ p1 # <<"c", "o", "n", "s", "t", "r", "u", "c", "t", "o", "r">> -> NativeFunctionText(p1)
    [] OTHER -> p1

\* String.prototype.replace(/([a-zA-Z]+)(\d*)/g, ...): every run of letters
\* with the digits after it is replaced, from left to right.
RECURSIVE replaceLabels(_)
replaceLabels(s) ==
  IF s = <<>> THEN <<>>
  ELSE IF ~IsLetter(s[1]) THEN <<s[1]>> \o replaceLabels(Tail(s))
  ELSE LET n == leadingRun(s, Range(UpperChars) \cup Range(LowerChars))
           d == leadingRun(SubSeq(s, n + 1, Len(s)), Range(DigitChars))
       IN mappedLabel(SubSeq(s, 1, n)) \o SubSeq(s, n + 1, n + d)
            \o replaceLabels(SubSeq(s, n + d + 1, Len(s)))

\* The build metadata is not written (lines 70-75 only log).
as_pep_440(v) ==
  NatToStr(v.major) \o <<".">> \o NatToStr(v.minor) \o <<".">> \o NatToStr(v.patch)
    \o (IF v.prerelease # <<>> THEN replaceLabels(replaceHyphens(v.prerelease)) ELSE <<>>)

\* The versions as_pep_440 is explored with: a label, a numeric suffix, and
\* prereleases of other shapes.
Pep440Labels ==
  { <<"a", "l", "p", "h", "a">>, <<"b", "e", "t", "a">>, <<"r", "c">>, <<"p", "r", "e", "v", "i", "e", "w">>, <<"d", "e", "v">>, <<"R", "C">>, <<"A", "l", "p", "h", "a">>, <<"a", "l", "p", "h", "a", "b", "e", "t">>,
    <<"x">>, <<"c", "o", "n", "s", "t", "r", "u", "c", "t", "o", "r">>, <<"v", "a", "l", "u", "e", "O", "f">> }
Pep440Suffixes == {<<>>, <<"0">>, <<".", "1">>, <<".", "5">>, <<"1", "2">>}
Pep440OtherPrereleases == {<<>>, <<"r", "c", "-", "1">>, <<"0">>, <<"1", ".", "a", "l", "p", "h", "a">>, <<"a", "l", "p", "h", "a", "1", "b", "e", "t", "a">>, <<"-">>}
Pep440Versions ==
  {SemanticVersion(t[1], t[2], t[3], prerelease, buildmetadata) :
     t \in {<<1, 2, 3>>, <<0, 0, 1>>, <<10, 0, 0>>},
     prerelease \in {label \o suffix : label \in Pep440Labels, suffix \in Pep440Suffixes}
                      \cup Pep440OtherPrereleases,
     buildmetadata \in {<<>>, <<"b", "1">>}}

CallAsPep440 ==
  /\ call.fn = "as_pep_440"
  /\ ret = Pending
  /\ ret' = Some(as_pep_440(call.v))
  /\ UNCHANGED call

(***************************************************************************)
(* PART 8 -- the specifications.                                           *)
(***************************************************************************)
vars == <<GH_CACHE, comps, callers, pc, tag, last_release_version, pr, impactRes, failed,
          new_version, outputs, history, scan, call, ret>>

\* Concurrent callers of the cached queries.
InitCache == CacheInit /\ RunIdle /\ FnIdle
NextCache ==
  \/ (\E i \in Callers : getLatestTag(i)) /\ UNCHANGED <<runVars, fnVars>>
  \/ (\E i \in Callers : getLatestRelease(i)) /\ UNCHANGED <<runVars, fnVars>>
  \/ (\E i \in Callers : getPrCommits(i)) /\ UNCHANGED <<runVars, fnVars>>
  \/ (\E c \in 1..NCallers : IssueRequest(c)) /\ UNCHANGED <<runVars, fnVars>>
  \/ (\E c \in 1..NCallers : RequestSettles(c)) /\ UNCHANGED <<runVars, fnVars>>
  \/ (\E c \in 1..NCallers : WrappedSettles(c)) /\ UNCHANGED <<runVars, fnVars>>
  \/ (\E c \in 1..NCallers : FinallyHandler(c)) /\ UNCHANGED <<runVars, fnVars>>
  \/ (\E i \in Callers : CallerResumes(i)) /\ UNCHANGED <<runVars, fnVars>>
SpecCache == InitCache /\ [][NextCache]_vars

\* The release-candidate scan on its own, from any baseline and tag list.
InitScan ==
  /\ CacheInit /\ FnIdle
  /\ pc = "idle" /\ tag = <<>> /\ last_release_version = Undefined /\ pr = Undefined
  /\ impactRes = Undefined /\ failed = {} /\ new_version = Undefined /\ outputs = Undefined
  /\ history \in Histories
  /\ \E baseline \in Baselines : scan = startScan(baseline)
NextScan == ListTagsResumes /\ UNCHANGED <<cacheVars, fnVars>>
SpecScan == InitScan /\ [][NextScan]_vars

\* One run of the action.
InitRun ==
  /\ CacheInit /\ FnIdle
  /\ pc = "start" /\ tag = <<>> /\ last_release_version = Undefined /\ pr = Undefined
  /\ impactRes = Undefined /\ failed = {} /\ new_version = Undefined /\ outputs = Undefined
  /\ history = <<>> /\ scan = IdleScan
NextRun ==
  \/ run /\ UNCHANGED <<cacheVars, fnVars>>
  \/ LatestTagResumes /\ UNCHANGED <<cacheVars, fnVars>>
  \/ PrCommitsResumes /\ UNCHANGED <<cacheVars, fnVars>>
  \/ ImpactResumes /\ UNCHANGED <<cacheVars, fnVars>>
  \/ ListTagsResumes /\ UNCHANGED <<cacheVars, fnVars>>
  \/ ReleaseCandidatesResume /\ UNCHANGED <<cacheVars, fnVars>>
SpecRun == InitRun /\ [][NextRun]_vars

\* nextRcIndex on any base and list of tag names.
InitRc ==
  /\ CacheInit /\ RunIdle
  /\ \E base \in RcBases, tagNames \in RcTagLists :
       call = [fn |-> "nextRcIndex", base |-> base, tagNames |-> tagNames]
  /\ ret = Pending
NextRc == CallNextRcIndex /\ UNCHANGED <<cacheVars, runVars>>
SpecRc == InitRc /\ [][NextRc]_vars

\* compare on any two versions.
InitCompare ==
  /\ CacheInit /\ RunIdle
  /\ \E a \in CompareVersions, b \in CompareVersions : call = [fn |-> "compare", a |-> a, b |-> b]
  /\ ret = Pending
NextCompare == CallCompare /\ UNCHANGED <<cacheVars, runVars>>
SpecCompare == InitCompare /\ [][NextCompare]_vars

\* bump on any version, impact and arguments.
InitBump ==
  /\ CacheInit /\ RunIdle
  /\ \E v \in BumpVersions, impact \in Impact, p \in BumpPrereleases, b \in BumpBuilds :
       call = [fn |-> "bump", v |-> v, impact |-> impact, prerelease |-> p, buildmetadata |-> b]
  /\ ret = Pending
NextBump == CallBump /\ UNCHANGED <<cacheVars, runVars>>
SpecBump == InitBump /\ [][NextBump]_vars

\* ParseConventionalTitle on any title.
InitTitle ==
  /\ CacheInit /\ RunIdle
  /\ \E title \in Titles : call = [fn |-> "ParseConventionalTitle", title |-> title]
  /\ ret = Pending
NextTitle == CallParseConventionalTitle /\ UNCHANGED <<cacheVars, runVars>>
SpecTitle == InitTitle /\ [][NextTitle]_vars

\* ParseConventionalBody on any body.
InitBody ==
  /\ CacheInit /\ RunIdle
  /\ \E body \in Bodies : call = [fn |-> "ParseConventionalBody", body |-> body]
  /\ ret = Pending
NextBody == CallParseConventionalBody /\ UNCHANGED <<cacheVars, runVars>>
SpecBody == InitBody /\ [][NextBody]_vars

\* getConventionalImpact on any title and body.
InitImpact ==
  /\ CacheInit /\ RunIdle
  /\ \E title \in Titles, body \in ImpactBodies :
       call = [fn |-> "getConventionalImpact", title |-> title, body |-> body]
  /\ ret = Pending
NextImpact == CallGetConventionalImpact /\ UNCHANGED <<cacheVars, runVars>>
SpecImpact == InitImpact /\ [][NextImpact]_vars

\* toString or as_tag of a version, and parse of the text.
InitFormat ==
  /\ CacheInit /\ RunIdle
  /\ \E fn \in {"toString", "as_tag"}, v \in FormatVersions : call = [fn |-> fn, v |-> v]
  /\ ret = Pending
NextFormat ==
  \/ CallFormat /\ UNCHANGED <<cacheVars, runVars>>
  \/ ParseFormatted /\ UNCHANGED <<cacheVars, runVars>>
  \/ CallParse /\ UNCHANGED <<cacheVars, runVars>>
SpecFormat == InitFormat /\ [][NextFormat]_vars

\* parse on any text.
InitParse ==
  /\ CacheInit /\ RunIdle
  /\ \E version \in ParseTexts : call = [fn |-> "parse", version |-> version]
  /\ ret = Pending
NextParse == CallParse /\ UNCHANGED <<cacheVars, runVars>>
SpecParse == InitParse /\ [][NextParse]_vars

\* Every way a version is produced: the constructor, parse, bump and
\* parse_pep440.
InitVersion ==
  /\ CacheInit /\ RunIdle
  /\ \/ \E t \in ConstructorTriples, prerelease \in ConstructorPrereleases,
          buildmetadata \in ConstructorBuilds :
          call = [fn |-> "constructor", major |-> t[1], minor |-> t[2], patch |-> t[3],
                  prerelease |-> prerelease, buildmetadata |-> buildmetadata]
     \/ \E version \in ParseTexts : call = [fn |-> "parse", version |-> version]
     \/ \E v \in BumpVersions, impact \in Impact, prerelease \in BumpPrereleases,
          buildmetadata \in BumpBuilds :
          call = [fn |-> "bump", v |-> v, impact |-> impact,
                  prerelease |-> prerelease, buildmetadata |-> buildmetadata]
     \/ \E version \in Pep440Texts : call = [fn |-> "parse_pep440", version |-> version]
  /\ ret = Pending
NextVersion ==
  \/ CallConstructor /\ UNCHANGED <<cacheVars, runVars>>
  \/ CallParse /\ UNCHANGED <<cacheVars, runVars>>
  \/ CallBump /\ UNCHANGED <<cacheVars, runVars>>
  \/ CallParsePep440 /\ UNCHANGED <<cacheVars, runVars>>
SpecVersion == InitVersion /\ [][NextVersion]_vars

\* compare on the pairs of any three versions.
InitOrder ==
  /\ CacheInit /\ RunIdle
  /\ \E a \in OrderVersions, b \in OrderVersions, c \in OrderVersions :
       call = [fn |-> "compare3", a |-> a, b |-> b, c |-> c]
  /\ ret = Pending
NextOrder == CallCompareThree /\ UNCHANGED <<cacheVars, runVars>>
SpecOrder == InitOrder /\ [][NextOrder]_vars

\* bump on an instance; call.before records the fields of the instance at
\* the call.
InitBumpObject ==
  /\ CacheInit /\ RunIdle
  /\ \E v \in BumpVersions, impact \in Impact, prerelease \in BumpPrereleases,
        buildmetadata \in BumpBuilds :
       call = [fn |-> "bump_object", objects |-> <<v>>, this |-> 1, before |-> v,
               impact |-> impact, prerelease |-> prerelease, buildmetadata |-> buildmetadata]
  /\ ret = Pending
NextBumpObject == CallBumpObject /\ UNCHANGED <<cacheVars, runVars>>
SpecBumpObject == InitBumpObject /\ [][NextBumpObject]_vars

\* parse_pep440 on any text.
InitPep440 ==
  /\ CacheInit /\ RunIdle
  /\ \E version \in Pep440Composed \cup Pep440Texts :
       call = [fn |-> "parse_pep440", version |-> version]
  /\ ret = Pending
NextPep440 == CallParsePep440 /\ UNCHANGED <<cacheVars, runVars>>
SpecPep440 == InitPep440 /\ [][NextPep440]_vars

\* as_pep_440 on any version.
InitAsPep440 ==
  /\ CacheInit /\ RunIdle
  /\ \E v \in Pep440Versions : call = [fn |-> "as_pep_440", v |-> v]
  /\ ret = Pending
NextAsPep440 == CallAsPep440 /\ UNCHANGED <<cacheVars, runVars>>
SpecAsPep440 == InitAsPep440 /\ [][NextAsPep440]_vars

\* The scan with its continuation scheduled: the request of a page settles
\* (the source answers or fails), and the function resumes.
SpecScanFair == SpecScan /\ WF_vars(NextScan)

(***************************************************************************)
(* Claims about the cached queries (checked under SpecCache).              *)
(***************************************************************************)
CompIds == 1..Len(comps)

\* The API requests of query q that are issued and not yet answered.
Outstanding(q) == {c \in CompIds : comps[c].q = q /\ comps[c].st = "inflight"}

\* Whether the API request of computation c failed (thrown or rejected).
RequestFailed(c) == comps[c].st \in {"rawSettled", "settled", "done"} /\ comps[c].raw = "error"

\* C1: for every interleaving of callers of one cached query, at most one
\* underlying API operation for its key is outstanding at any time.
C1_AtMostOneOutstanding ==
  \A q \in Queries : Cardinality(Outstanding(q)) <= 1

C3_SharedOutcome ==
  \A i \in Callers :
    (callers[i].pc = "returned" /\ callers[i].c # NoComp) =>
      LET c == callers[i].c IN
      /\ callers[i].res =
           (IF comps[c].raw = "error"
              THEN (IF comps[c].q = "prCommits" THEN "[]" ELSE "undefined")
              ELSE comps[c].raw)
      /\ \A j \in Callers :
           (callers[j].pc = "returned" /\ callers[j].c = c) => callers[j].res = callers[i].res

\* C3 witness: two callers of one computation whose request failed have both
\* returned, and two callers of one whose request gave data have both returned.
C3_Witness ==
  /\ \E i, j \in Callers :
       /\ i # j /\ callers[i].c # NoComp /\ callers[i].c = callers[j].c
       /\ callers[i].pc = "returned" /\ callers[j].pc = "returned"
       /\ (RequestFailed(callers[i].c) \/ comps[callers[i].c].raw = "data")

\* C4: a failure of the API operation, thrown synchronously or delivered as a
\* rejection, never reaches the caller as an exception: the call completes
\* with undefined ([] for getPrCommits).
C4_FailureNeverPropagates ==
  \A i \in Callers :
    /\ callers[i].pc # "threw"
    /\ (callers[i].pc = "returned" /\ (callers[i].c = NoComp \/ RequestFailed(callers[i].c)))
         => callers[i].res = (IF callers[i].q = "prCommits" THEN "[]" ELSE "undefined")

\* C4 witness: one call has completed after listCommits threw synchronously and
\* another after its request was rejected.
C4_Witness ==
  /\ \E i \in Callers : callers[i].pc = "returned" /\ callers[i].c = NoComp
  /\ \E j \in Callers :
       /\ callers[j].pc = "returned" /\ callers[j].c # NoComp
       /\ RequestFailed(callers[j].c) /\ callers[j].q # "prCommits"


(***************************************************************************)
(* Claims about the release-candidate scan and nextRcIndex.                *)
(***************************************************************************)
\* A tag name that parses to a version whose prerelease holds "rc" in any
\* letter case.
IsRcTag(t) ==
  /\ parse(t) # Undefined
  /\ \E i \in 1..(Len(parse(t).prerelease) - 1) :
       LowerChar(parse(t).prerelease[i]) = "r" /\ LowerChar(parse(t).prerelease[i + 1]) = "c"

\* The first index of the tag list that satisfies Test, one past its end when
\* none does.
FirstIndex(h, Test(_)) ==
  IF \E i \in DOMAIN h : Test(h[i])
    THEN CHOOSE i \in DOMAIN h : Test(h[i]) /\ \A j \in 1..(i - 1) : ~Test(h[j])
    ELSE Len(h) + 1

OlderThanBaseline(t) == parse(t) # Undefined /\ compare(parse(t), scan.baseline) < 0
NewerThanBaseline(t) == parse(t) # Undefined /\ compare(parse(t), scan.baseline) > 0
OlderRcTag(t) == IsRcTag(t) /\ OlderThanBaseline(t)
NewerRcTag(t) == IsRcTag(t) /\ NewerThanBaseline(t)

\* C5 (as amended): when no page request fails, the scan retains no tag
\* positioned after the first release-candidate tag strictly older than the
\* baseline, and before that point it retains, in order, exactly the
\* release-candidate tags strictly newer than the baseline; when a page request
\* fails it retains nothing.
C5_RetainsNewerRcBeforeFirstOlderRc ==
  scan.st = "returned" =>
    IF scan.failed THEN scan.results = <<>>
    ELSE scan.results =
           SelectSeq(SubSeq(history, 1, FirstIndex(history, OlderRcTag) - 1), NewerRcTag)

\* C5 witness: tags [v1.2.0-rc.1, v0.9.0-rc.1, v1.1.0-rc.1] scanned with
\* baseline 1.0.0 gave exactly [v1.2.0-rc.1].
C5_Witness ==
  /\ scan.st = "returned" /\ ~scan.failed
  /\ scan.baseline = SemanticVersion(1, 0, 0, <<>>, <<>>)
  /\ history = << <<"v", "1", ".", "2", ".", "0", "-", "r", "c", ".", "1">>,
                  <<"v", "0", ".", "9", ".", "0", "-", "r", "c", ".", "1">>,
                  <<"v", "1", ".", "1", ".", "0", "-", "r", "c", ".", "1">> >>
  /\ scan.results = << <<"v", "1", ".", "2", ".", "0", "-", "r", "c", ".", "1">> >>

\* C5 (as stated): the scan retains no tag positioned after the first tag
\* whose parsed version is strictly older than the baseline, and before that
\* point it retains exactly the tags that parse to a version with a prerelease
\* containing "rc".
C5_RetainsRcBeforeFirstOlder ==
  (scan.st = "returned" /\ ~scan.failed) =>
    scan.results =
      SelectSeq(SubSeq(history, 1, FirstIndex(history, OlderThanBaseline) - 1), IsRcTag)

\* The rc ordinal of a prerelease: the digit run after the leftmost "rc" (any
\* letter case) that digits follow, directly or after one of '.', '-', '_'.
RcOrdinalStart(s, i) ==
  IF i + 2 <= Len(s) /\ IsDigit(s[i + 2]) THEN i + 2
  ELSE IF i + 3 <= Len(s) /\ s[i + 2] \in {".", "-", "_"} /\ IsDigit(s[i + 3]) THEN i + 3
  ELSE 0
HasRcAt(s, i) ==
  /\ i + 1 <= Len(s) /\ LowerChar(s[i]) = "r" /\ LowerChar(s[i + 1]) = "c"
  /\ RcOrdinalStart(s, i) # 0
HasRcOrdinal(s) == \E i \in DOMAIN s : HasRcAt(s, i)
RcOrdinal(s) ==
  LET i == CHOOSE i \in DOMAIN s : HasRcAt(s, i) /\ \A j \in 1..(i - 1) : ~HasRcAt(s, j)
      d == RcOrdinalStart(s, i)
      e == CHOOSE e \in d..Len(s) :
             /\ \A k \in d..e : IsDigit(s[k])
             /\ (e < Len(s) => ~IsDigit(s[e + 1]))
  IN StrToNat(SubSeq(s, d, e))

\* The rc ordinals of the tag names for the numeric triple of base.
RcOrdinalsFor(base, names) ==
  {RcOrdinal(parse(names[i]).prerelease) :
     i \in {k \in DOMAIN names :
              /\ parse(names[k]) # Undefined
              /\ parse(names[k]).major = base.major
              /\ parse(names[k]).minor = base.minor
              /\ parse(names[k]).patch = base.patch
              /\ HasRcOrdinal(parse(names[k]).prerelease)}}

\* One more than the highest of them, 0 when there is none.
NextUnusedOrdinal(base, names) ==
  IF RcOrdinalsFor(base, names) = {} THEN 0
  ELSE 1 + CHOOSE m \in RcOrdinalsFor(base, names) : \A n \in RcOrdinalsFor(base, names) : n <= m

\* C10: nextRcIndex(base, tagNames) is one more than the highest rc ordinal of
\* the tag names that parse to a version with the numeric triple of base and a
\* prerelease holding "rc" followed by a digit run, and 0 when no tag
\* qualifies: a function of the set of qualifying ordinals alone.
C10_NextRcIndexIsMaxPlusOne ==
  (call.fn = "nextRcIndex" /\ ret # Pending) =>
    ret.value = NextUnusedOrdinal(call.base, call.tagNames)

\* C10 witness: nextRcIndex(1.2.3, [v1.2.3-rc0, v1.2.3-rc2, v1.2.3-rc1]) returned 3.
C10_Witness ==
  /\ call.fn = "nextRcIndex"
  /\ call.base = SemanticVersion(1, 2, 3, <<>>, <<>>)
  /\ call.tagNames = << <<"v", "1", ".", "2", ".", "3", "-", "r", "c", "0">>,
                        <<"v", "1", ".", "2", ".", "3", "-", "r", "c", "2">>,
                        <<"v", "1", ".", "2", ".", "3", "-", "r", "c", "1">> >>
  /\ ret = Some(3)

(***************************************************************************)
(* Claims about the run.                                                   *)
(***************************************************************************)
\* The tag list is newest first: no tag that parses is older than one that
\* parses and follows it.
NewestFirst(h) ==
  \A i, j \in DOMAIN h :
    (i < j /\ parse(h[i]) # Undefined /\ parse(h[j]) # Undefined)
      => compare(parse(h[i]), parse(h[j])) >= 0

\* C6: for a pull request with the release-candidate label that is not
\* merged, whatever the final impact, the prerelease produced is rcN with N
\* one more than the highest rc ordinal among the history tags of the bumped
\* base version, and 0 when there is none (the history is newest first and
\* every page of it was served).
C6_OrdinalIsNextUnused ==
  (/\ pc = "done" /\ hasReleaseCandidateLabel(pr) /\ ~pr.merged
   /\ scan.st = "returned" /\ ~scan.failed /\ NewestFirst(history))
    => new_version.prerelease = <<"r", "c">> \o NatToStr(NextUnusedOrdinal(new_version, history))

\* The highest impact of the commits that classified.
CommitSetImpact(res) ==
  CHOOSE m \in {res.commitImpacts[i].impact : i \in DOMAIN res.commitImpacts} :
    \A i \in DOMAIN res.commitImpacts : res.commitImpacts[i].impact <= m

\* C7: whenever the description classifies, the final impact is the
\* description's, and a warning is recorded if and only if at least one commit
\* classified and the commit-set impact differs from the description's.
C7_DescriptionWinsWarningIffDiffer ==
  (impactRes # Undefined /\ impactRes.prImpact # Undefined) =>
    /\ impactRes.finalImpact = impactRes.prImpact
    /\ impactRes.warning <=>
         (/\ impactRes.commitImpacts # <<>>
          /\ CommitSetImpact(impactRes) # impactRes.prImpact.impact)

\* C8: when only the commit set has an impact the final impact is its maximum,
\* when only the description has one it is the description's, and when neither
\* has one there is no final impact, the run is marked failed and no version
\* is emitted.
C8_OnePresentOrFatal ==
  (impactRes # Undefined /\ pc \in {"returned", "done"}) =>
    /\ (impactRes.prImpact # Undefined /\ impactRes.commitImpacts = <<>>)
         => impactRes.finalImpact = impactRes.prImpact
    /\ (impactRes.prImpact = Undefined /\ impactRes.commitImpacts # <<>>)
         => (/\ impactRes.finalImpact # Undefined
             /\ impactRes.finalImpact.impact = CommitSetImpact(impactRes))
    /\ (impactRes.prImpact = Undefined /\ impactRes.commitImpacts = <<>>)
         => (impactRes.finalImpact = Undefined /\ failed # {} /\ outputs = Undefined)

\* C9: classification marks the run failed only when no impact can be
\* determined from the description nor from any commit.
C9_ClassificationFatalOnlyWithoutImpact ==
  (impactRes # Undefined /\ failed \cap {"title", "no impact"} # {}) =>
    impactRes.finalImpact = Undefined

(***************************************************************************)
(* Claims about SemanticVersion.                                           *)
(***************************************************************************)
\* The order of two prerelease identifiers: numeric ones by value and below
\* the others, the others in ASCII order.
IdentOrder(x, y) ==
  IF AllDigits(x) /\ AllDigits(y)
    THEN (IF StrToNat(x) = StrToNat(y) THEN 0 ELSE IF StrToNat(x) > StrToNat(y) THEN 1 ELSE -1)
  ELSE IF AllDigits(x) THEN -1
  ELSE IF AllDigits(y) THEN 1
  ELSE IF x = y THEN 0
  ELSE IF StrGreater(x, y) THEN 1 ELSE -1

\* The order of two lists of identifiers: that of the identifiers at the first
\* position where they differ; without one, the shorter list is lower.
IdentListOrder(A, B) ==
  LET common == {i \in DOMAIN A \cap DOMAIN B : IdentOrder(A[i], B[i]) # 0} IN
  IF common # {}
    THEN LET k == CHOOSE i \in common : \A j \in common : i <= j IN IdentOrder(A[k], B[k])
  ELSE IF Len(A) = Len(B) THEN 0
  ELSE IF Len(A) < Len(B) THEN -1 ELSE 1

\* The precedence of two versions as the specification states it.
Precedence(a, b) ==
  IF a.major # b.major THEN (IF a.major > b.major THEN 1 ELSE -1)
  ELSE IF a.minor # b.minor THEN (IF a.minor > b.minor THEN 1 ELSE -1)
  ELSE IF a.patch # b.patch THEN (IF a.patch > b.patch THEN 1 ELSE -1)
  ELSE IF a.prerelease = <<>> \/ b.prerelease = <<>>
    THEN (IF a.prerelease = b.prerelease THEN 0 ELSE IF a.prerelease = <<>> THEN 1 ELSE -1)
  ELSE IdentListOrder(split(a.prerelease, "."), split(b.prerelease, "."))

\* C11: compare(a, b) is -1, 0 or 1: the order of the numeric triples first,
\* then a version without prerelease above one with a prerelease, then the
\* prerelease identifiers left to right (numeric ones by value and below
\* alphanumeric ones, a proper prefix lower); build metadata plays no part.
C11_CompareIsPrecedence ==
  (call.fn = "compare" /\ ret # Pending) =>
    /\ ret.value \in {-1, 0, 1}
    /\ ret.value = Precedence(call.a, call.b)
    /\ ret.value = Precedence([call.a EXCEPT !.buildmetadata = <<>>],
                              [call.b EXCEPT !.buildmetadata = <<>>])

\* C11 witness: 1.0.0-rc.2+b1 compared with 1.0.0-rc.10 gave -1 (numeric
\* identifiers by value, build metadata ignored).
C11_Witness ==
  /\ call.fn = "compare"
  /\ call.a = SemanticVersion(1, 0, 0, <<"r", "c", ".", "2">>, <<"b", "1">>)
  /\ call.b = SemanticVersion(1, 0, 0, <<"r", "c", ".", "1", "0">>, <<>>)
  /\ ret = Some(-1)

\* The numeric triple after a bump, as the specification states it.
BumpedTriple(v, impact) ==
  CASE impact = MAJOR -> <<v.major + 1, 0, 0>>
    [] impact = MINOR -> <<v.major, v.minor + 1, 0>>
    [] impact = PATCH -> <<v.major, v.minor, v.patch + 1>>
    [] impact = NOIMPACT -> <<v.major, v.minor, v.patch>>

\* C12: bump returns (M+1, 0, 0) for Major, (M, m+1, 0) for Minor, (M, m, p+1)
\* for Patch and (M, m, p) for NoImpact, with the prerelease and buildmetadata
\* supplied (absent when not supplied), never those of the version bumped.
C12_BumpTripleAndMetadata ==
  (call.fn = "bump" /\ ret # Pending /\ ret # Threw) =>
    /\ <<ret.value.major, ret.value.minor, ret.value.patch>> = BumpedTriple(call.v, call.impact)
    /\ ret.value.prerelease = call.prerelease
    /\ ret.value.buildmetadata = call.buildmetadata

\* C12 witness: 1.2.3-rc.1+b1 bumped by Minor without further arguments gave
\* 1.3.0 without prerelease and build metadata.
C12_Witness ==
  /\ call.fn = "bump"
  /\ call.v = SemanticVersion(1, 2, 3, <<"r", "c", ".", "1">>, <<"b", "1">>)
  /\ call.impact = MINOR /\ call.prerelease = <<>> /\ call.buildmetadata = <<>>
  /\ ret = Some(SemanticVersion(1, 3, 0, <<>>, <<>>))

(***************************************************************************)
(* Claims about the classifier.                                            *)
(***************************************************************************)
\* The fixed mapping of the recognized types, as the specification states it.
NoImpactTypes == {<<"d", "o", "c", "s">>, <<"s", "t", "y", "l", "e">>, <<"t", "e", "s", "t">>, <<"c", "h", "o", "r", "e">>, <<"b", "u", "i", "l", "d">>, <<"c", "i">>}
PatchTypes == {<<"r", "e", "f", "a", "c", "t", "o", "r">>, <<"f", "i", "x">>, <<"p", "e", "r", "f">>}
MinorTypes == {<<"f", "e", "a", "t">>}
RecognizedTypes == NoImpactTypes \cup PatchTypes \cup MinorTypes
BaseImpact(type) ==
  IF type \in NoImpactTypes THEN NOIMPACT ELSE IF type \in PatchTypes THEN PATCH ELSE MINOR

\* C13: on a title type(scope)?(!)?: description with a recognized type,
\* ParseConventionalTitle returns the type as label and the impact of the
\* fixed mapping, or Major when the '!' marker is present.
C13_RecognizedTitleImpact ==
  (call.fn = "ParseConventionalTitle" /\ ret # Pending) =>
    \A type \in RecognizedTypes, scope \in TitleScopes, marker \in TitleMarkers,
       description \in TitleDescriptions :
      call.title = composeTitle(type, scope, marker, description) =>
        ret.value = [type |-> type,
                     impact |-> IF marker # <<>> THEN MAJOR ELSE BaseImpact(type)]

\* C13 witness: chore!: x gave the label chore and Major.
C13_Witness ==
  /\ call.fn = "ParseConventionalTitle"
  /\ call.title = <<"c", "h", "o", "r", "e", "!", ":", " ", "x">>
  /\ ret # Pending
  /\ ret.value = [type |-> <<"c", "h", "o", "r", "e">>, impact |-> MAJOR]

\* The type token of a title: its characters before the first of '(', '!', ':'.
TypeToken(title) == SubSeq(title, 1, FirstIn(title, {"(", "!", ":"}) - 1)

\* C14: ParseConventionalTitle returns an absent result for every title whose
\* type token is not one of the ten recognized types, and never a
\* classification whose type is outside the fixed set or whose impact is not
\* one of the four Impact values.
C14_UnrecognizedTitleAbsent ==
  (call.fn = "ParseConventionalTitle" /\ ret # Pending) =>
    /\ TypeToken(call.title) \notin RecognizedTypes => ret.value = Undefined
    /\ ret.value # Undefined =>
         (ret.value.type \in RecognizedTypes /\ ret.value.impact \in Impact)

\* The body holds the marker text at some position.
ContainsMarker(body) ==
  \E i \in 1..Len(body) :
    /\ i + Len(BREAKING_CHANGE) - 1 <= Len(body)
    /\ \A k \in 1..Len(BREAKING_CHANGE) : body[i + k - 1] = BREAKING_CHANGE[k]

\* C15: getConventionalImpact returns an absent result whenever
\* ParseConventionalTitle does, for every body, also one holding the
\* BREAKING CHANGE marker.
C15_TitleFailureFailsResolve ==
  (call.fn = "getConventionalImpact" /\ ret # Pending) =>
    (ParseConventionalTitle(call.title) = Undefined => ret.value = Undefined)

\* C15 witness: a title that does not classify, with a body holding the
\* marker, resolved to an absent result.
C15_Witness ==
  /\ call.fn = "getConventionalImpact"
  /\ call.title = <<"f", "o", "o", ":", " ", "x">>
  /\ ContainsMarker(call.body)
  /\ ret # Pending
  /\ ret.value = Undefined

\* C16: when ParseConventionalTitle returns a classification,
\* getConventionalImpact returns its type with impact Major if the body
\* contains BREAKING CHANGE and the title impact otherwise.
C16_ResolveIsMaxOfTitleAndBody ==
  (call.fn = "getConventionalImpact" /\ ret # Pending) =>
    \A titleImpact \in {ParseConventionalTitle(call.title)} :
      titleImpact # Undefined =>
        /\ ret.value # Undefined
        /\ ret.value.type = titleImpact.type
        /\ ret.value.impact = IF ContainsMarker(call.body) THEN MAJOR ELSE titleImpact.impact

\* C17: ParseConventionalBody returns Major exactly when the body holds the
\* text BREAKING CHANGE in this case, and an absent result otherwise.
C17_BodyMajorIffMarker ==
  (call.fn = "ParseConventionalBody" /\ ret # Pending) =>
    /\ ContainsMarker(call.body) <=> ret = Some(MAJOR)
    /\ ~ContainsMarker(call.body) <=> ret = Undefined

\* C17 witness: Major for a body holding the marker after other text, absent
\* for the marker in lower case.
C17_Witness ==
  /\ call.fn = "ParseConventionalBody"
  /\ ret # Pending
  /\ \/ call.body = <<"x", "B", "R", "E", "A", "K", "I", "N", "G", " ", "C", "H", "A", "N", "G", "E", ":", " ", "r", "e", "m", "o", "v", "e", "d">> /\ ret = Some(MAJOR)
     \/ call.body = <<"b", "r", "e", "a", "k", "i", "n", "g", " ", "c", "h", "a", "n", "g", "e">> /\ ret = Undefined

\* The grammars of the specification, stated on positions: a numeral is a
\* digit run without leading zero unless it is 0; the identifiers of a
\* dot-separated text are its stretches between two neighbouring dots (or an
\* end of the text).
Digits == {"0", "1", "2", "3", "4", "5", "6", "7", "8", "9"}
GrammarNumeral(s) ==
  /\ Len(s) >= 1
  /\ \A i \in 1..Len(s) : s[i] \in Digits
  /\ (Len(s) > 1 => s[1] # "0")
GrammarToken(s) ==
  /\ Len(s) >= 1
  /\ \A i \in 1..Len(s) : IsLetter(s[i]) \/ s[i] \in Digits \/ s[i] = "-"
DotBounds(s) == {0, Len(s) + 1} \cup {i \in 1..Len(s) : s[i] = "."}
Stretches(s) ==
  {SubSeq(s, a + 1, b - 1) : <<a, b>> \in
     {p \in DotBounds(s) \X DotBounds(s) :
        p[1] < p[2] /\ \A k \in (p[1] + 1)..(p[2] - 1) : s[k] # "."}}
GrammarPrerelease(s) ==
  \A id \in Stretches(s) :
    GrammarNumeral(id) \/ (GrammarToken(id) /\ \E i \in 1..Len(id) : id[i] \notin Digits)
GrammarBuildmetadata(s) == \A id \in Stretches(s) : GrammarToken(id)

\* C18: for a version with grammar-valid optional prerelease and
\* buildmetadata, parse of its toString and of its as_tag returns a version
\* equal to it in all five fields.
C18_ParseInvertsFormat ==
  (call.fn = "parse" /\ "v" \in DOMAIN call /\ ret # Pending) =>
    /\ ret # Undefined
    /\ ret.value.major = call.v.major
    /\ ret.value.minor = call.v.minor
    /\ ret.value.patch = call.v.patch
    /\ ret.value.prerelease = call.v.prerelease
    /\ ret.value.buildmetadata = call.v.buildmetadata

\* C18 witness: v209.10.3-x.0.10+a.b-c was parsed back.
C18_Witness ==
  /\ call.fn = "parse"
  /\ "v" \in DOMAIN call
  /\ call.version = <<"v", "2", "0", "9", ".", "1", "0", ".", "3", "-", "x", ".", "0", ".", "1", "0", "+", "a", ".", "b", "-", "c">>
  /\ ret = Some(SemanticVersion(209, 10, 3, <<"x", ".", "0", ".", "1", "0">>, <<"a", ".", "b", "-", "c">>))

\* The texts [v]major.minor.patch[-prerelease][+buildmetadata]: the places of
\* the two dots of the triple, the end of the triple and the end of the
\* prerelease part are named.
WellFormedFrom(s) ==
  \E d1, d2 \in {i \in 1..Len(s) : s[i] = "."} :
  \E e \in {i \in 1..Len(s) : i = Len(s) \/ s[i + 1] \in {"-", "+"}} :
  \E f \in {i \in 1..Len(s) : i = Len(s) \/ s[i + 1] = "+"} :
    /\ 1 < d1 /\ d1 < d2 /\ d2 < e /\ e <= f
    /\ GrammarNumeral(SubSeq(s, 1, d1 - 1))
    /\ GrammarNumeral(SubSeq(s, d1 + 1, d2 - 1))
    /\ GrammarNumeral(SubSeq(s, d2 + 1, e))
    /\ (f > e => (s[e + 1] = "-" /\ GrammarPrerelease(SubSeq(s, e + 2, f))))
    /\ (Len(s) > f => (s[f + 1] = "+" /\ GrammarBuildmetadata(SubSeq(s, f + 2, Len(s)))))
WellFormed(text) ==
  \/ WellFormedFrom(text)
  \/ (Len(text) >= 1 /\ text[1] = "v" /\ WellFormedFrom(Tail(text)))

\* C19: parse returns a version exactly for the texts
\* [v]major.minor.patch[-prerelease][+buildmetadata] whose numerals have no
\* leading zero and whose prerelease and buildmetadata follow their grammars,
\* and an absent result, without throwing, for every other text.
C19_ParseAcceptsExactlyTheGrammar ==
  (call.fn = "parse" /\ ret # Pending) =>
    /\ ret # Threw
    /\ WellFormed(call.version) <=> ret # Undefined

\* C19 witness: 01.2.3 gave an absent result, or v1.2.3-0a+001 a version.
C19_Witness ==
  /\ call.fn = "parse"
  /\ ret # Pending
  /\ \/ call.version = <<"0", "1", ".", "2", ".", "3">> /\ ret = Undefined
     \/ call.version = <<"v", "1", ".", "2", ".", "3", "-", "0", "a", "+", "0", "0", "1">> /\ ret = Some(SemanticVersion(1, 2, 3, <<"0", "a">>, <<"0", "0", "1">>))

C21_CompareIsTotalOrder ==
  (call.fn = "compare3" /\ ret # Pending) =>
    /\ ret.aa = 0
    /\ ret.ab \in {-1, 0, 1}
    /\ ret.ab = -ret.ba
    /\ (ret.ab <= 0 /\ ret.bc <= 0) => ret.ac <= 0

\* C21 witness: rc.1 below rc.1.0 below the release, compared in both
\* directions and across.
C21_Witness ==
  /\ call.fn = "compare3"
  /\ call.a = SemanticVersion(1, 0, 0, <<"r", "c", ".", "1">>, <<>>)
  /\ call.b = SemanticVersion(1, 0, 0, <<"r", "c", ".", "1", ".", "0">>, <<>>)
  /\ call.c = SemanticVersion(1, 0, 0, <<>>, <<>>)
  /\ ret # Pending
  /\ ret.ab = -1 /\ ret.ba = 1 /\ ret.bc = -1 /\ ret.ac = -1

\* C22: bump never changes the version it is called on: after
\* v.bump(impact, prerelease, buildmetadata) the five fields of v are what
\* they were before, and the result is another instance than v.
C22_BumpLeavesReceiverUnchanged ==
  call.fn = "bump_object" =>
    /\ call.objects[call.this].major = call.before.major
    /\ call.objects[call.this].minor = call.before.minor
    /\ call.objects[call.this].patch = call.before.patch
    /\ call.objects[call.this].prerelease = call.before.prerelease
    /\ call.objects[call.this].buildmetadata = call.before.buildmetadata
    /\ (ret \notin {Pending, Threw} => ret.value # call.this)

\* C22 witness: 1.2.3-rc.1+b1 bumped by Major with prerelease rc0 gave a
\* second instance 2.0.0-rc0.
C22_Witness ==
  /\ call.fn = "bump_object"
  /\ call.before = SemanticVersion(1, 2, 3, <<"r", "c", ".", "1">>, <<"b", "1">>)
  /\ ret = Some(2)
  /\ call.objects[2] = SemanticVersion(2, 0, 0, <<"r", "c", "0">>, <<>>)

(***************************************************************************)
(* Claims about the packaging format.                                      *)
(***************************************************************************)
\* What the specification reads from the segments of a packaging-format
\* text.
ExpectedTriple(release) ==
  CASE release = <<"1">> -> <<1, 0, 0>>
    [] release = <<"1", ".", "2">> -> <<1, 2, 0>>
    [] release = <<"1", ".", "2", ".", "3">> -> <<1, 2, 3>>
    [] release = <<"0", ".", "1", ".", "0">> -> <<0, 1, 0>>
ExpectedPrerelease(pre, post, dev) ==
  CASE pre = <<"a", "1">> -> <<"a", "l", "p", "h", "a", ".", "1">>
    [] pre = <<"b", "2">> -> <<"b", "e", "t", "a", ".", "2">>
    [] pre = <<"r", "c", "1">> -> <<"r", "c", ".", "1">>
    [] pre = <<"-", "p", "r", "e", "v", "i", "e", "w", "1">> -> <<"p", "r", "e", ".", "1">>
    [] pre = <<>> /\ post # <<>> -> <<"p", "o", "s", "t", ".", "2">>
    [] pre = <<>> /\ post = <<>> /\ dev # <<>> -> <<"d", "e", "v", ".", "3">>
    [] OTHER -> <<>>
ExpectedBuildmetadata(local) == IF local = <<>> THEN <<>> ELSE Tail(local)

\* C23: parse_pep440 returns, for a well-formed packaging-format text, the
\* version whose triple is the release segments taken positionally (missing
\* ones 0), without the epoch, whose buildmetadata is the local segment and
\* whose prerelease is '<label>.<n>' of the pre-release, else post-release,
\* else dev segment, the pre-release label normalized; for a text that is
\* not one it returns an absent result.
C23_PackagingFormatParsed ==
  (call.fn = "parse_pep440" /\ ret # Pending) =>
    /\ \A lead \in Pep440Leads, release \in Pep440Releases, pre \in Pep440Pres,
          post \in Pep440Posts, dev \in Pep440Devs, local \in Pep440Locals :
         call.version = composePep440(lead, release, pre, post, dev, local) =>
           ret = Some(SemanticVersion(ExpectedTriple(release)[1], ExpectedTriple(release)[2],
                                      ExpectedTriple(release)[3],
                                      ExpectedPrerelease(pre, post, dev),
                                      ExpectedBuildmetadata(local)))
    /\ call.version \in {<<"n", "o", "t", "-", "a", "-", "v", "e", "r", "s", "i", "o", "n">>, <<>>} => ret = Undefined

\* A label as the specification writes it in the packaging format.
WrittenLabel(label) ==
  IF label = <<"a", "l", "p", "h", "a">> THEN <<"a">> ELSE IF label = <<"b", "e", "t", "a">> THEN <<"b">> ELSE label

\* C24: as_pep_440 renders major.minor.patch followed directly by the
\* prerelease, in which alpha is written a, beta is written b, rc stays rc and
\* any other label is kept as it is, followed by its numeric suffix; the
\* build metadata does not appear.
C24_PackagingFormatRendered ==
  (call.fn = "as_pep_440" /\ ret # Pending) =>
    \A label \in Pep440Labels, suffix \in Pep440Suffixes :
      call.v.prerelease = label \o suffix =>
        ret.value = NatToStr(call.v.major) \o <<".">> \o NatToStr(call.v.minor) \o <<".">>
                      \o NatToStr(call.v.patch) \o WrittenLabel(label) \o suffix

(***************************************************************************)
(* Further claims about the run.                                           *)
(***************************************************************************)
\* C25: when getLatestTag reports no tag, the baseline is 0.0.0 and the
\* emitted version is 0.0.0 bumped by the final impact.
C25_NoTagBaselineIsZero ==
  (tag = <<>> /\ last_release_version # Undefined) =>
    /\ last_release_version = SemanticVersion(0, 0, 0, <<>>, <<>>)
    /\ pc = "done" =>
         <<new_version.major, new_version.minor, new_version.patch>>
           = BumpedTriple(SemanticVersion(0, 0, 0, <<>>, <<>>), impactRes.finalImpact.impact)

\* C25 witness: without a tag, a run with final impact Minor emitted 0.1.0.
C25_Witness ==
  /\ pc = "done"
  /\ tag = <<>>
  /\ impactRes.finalImpact.impact = MINOR
  /\ outputs.version = <<"0", ".", "1", ".", "0">>

(***************************************************************************)
(* A further claim about the cached queries.                               *)
(***************************************************************************)
\* C26: while a computation registered under a key is unsettled (its request
\* not yet issued, or issued and not answered), the cache holds it under its
\* key: no handler of an earlier computation removes its entry.
C26_UnsettledEntryStays ==
  \A c \in CompIds :
    comps[c].st \in {"created", "inflight"} => LRUCacheGet(GH_CACHE, cacheKey(comps[c].q)) = c

\* C27: the version a run emits is never lower, under compare, than the last
\* release version, and it is strictly greater when the final impact is
\* Patch, Minor or Major, whatever the label and the merged flag.
C27_EmittedVersionMonotone ==
  pc = "done" =>
    /\ compare(new_version, last_release_version) >= 0
    /\ impactRes.finalImpact.impact \in {PATCH, MINOR, MAJOR}
         => compare(new_version, last_release_version) > 0

(***************************************************************************)
(* A further claim about the scan.                                         *)
(***************************************************************************)
\* The answer to the request of page k ends the scan: the page is empty or
\* shorter than the page size, or it holds a release-candidate tag older than
\* the baseline.
StopsAtPage(k) ==
  \/ Len(listTagsPage(k)) < PerPage
  \/ \E i \in DOMAIN listTagsPage(k) : OlderRcTag(listTagsPage(k)[i])

\* The pages requested are 1, 2, 3, ... in this order, one request being
\* outstanding while the scan is listing and none after it returned; no page
\* was requested after a page that ends the scan, and the scan returned only
\* on such a page or on a failure, then with an empty list.
PagesInOrder ==
  scan.st # "idle" =>
    /\ scan.requested = [k \in 1..Len(scan.requested) |-> k]
    /\ scan.requested # <<>>
    /\ \A k \in 1..(Len(scan.requested) - 1) : ~StopsAtPage(k)
    /\ scan.st = "returned" =>
         IF scan.failed THEN scan.results = <<>>
         ELSE StopsAtPage(Len(scan.requested))

\* C28: the paged scan terminates for every finite tag history: it requests
\* the pages 1, 2, 3, ... in increasing order, one at a time, and returns at
\* the first empty page, the first page shorter than the page size, the first
\* older release-candidate tag or the first failure of the source (then with
\* an empty list); it never requests a page after one of these.
C28_ScanTerminatesPageByPage ==
  /\ []PagesInOrder
  /\ [][scan.st = "returned" => scan' = scan]_vars
  /\ <>(scan.st = "returned")

\* C28 witness: a scan that requested pages 1 and 2 returned on the short
\* second page of a three-tag history.
C28_Witness ==
  /\ scan.st = "returned" /\ ~scan.failed
  /\ Len(history) = 3
  /\ scan.requested = <<1, 2>>

\* C29: a merged pull request never yields a prerelease: the emitted version
\* has no prerelease, the prerelease output is false and no request of the
\* release-candidate history is made, even with the release-candidate label.
C29_MergedYieldsNoPrerelease ==
  (pr # Undefined /\ pr.merged) =>
    /\ scan.requested = <<>> /\ scan.st = "idle"
    /\ pc # "awaitReleaseCandidates"
    /\ pc = "done" => (new_version.prerelease = <<>> /\ ~outputs.prerelease)

\* C29 witness: a merged pull request with the release-candidate label
\* emitted a version without prerelease.
C29_Witness ==
  /\ pc = "done"
  /\ pr.merged /\ hasReleaseCandidateLabel(pr)
  /\ new_version.prerelease = <<>>
  /\ ~outputs.prerelease

\* A prerelease rcN: rc and a numeral.
IsRcN(prerelease) ==
  /\ Len(prerelease) >= 3
  /\ prerelease[1] = "r" /\ prerelease[2] = "c"
  /\ GrammarNumeral(SubSeq(prerelease, 3, Len(prerelease)))

=============================================================================
